---- MODULE Spec2Model ----
(***************************************************************************)
(* HealthFactRegistry: the on-chain registry of WHO health facts           *)
(* (contracts/HealthFactRegistry.sol).  One action per external function   *)
(* of the contract; a call that reverts leaves the storage as it was and   *)
(* is recorded in the receipt (result, logs) of the last transaction.      *)
(***************************************************************************)
EXTENDS Integers, Sequences, FiniteSets, TLC

\* ------------------------------------------------------------------ bounds
\* block.timestamp and the uint64 timestamps of a call range over 1..MaxTime
MaxTime == 2
\* the largest uint16 version submitted
MaxVersion == 2

\* ------------------------------------------------------------------ enums
\* enum Verdict
VERDICT_TRUE == 0
VERDICT_FALSE == 1
VERDICT_MISLEADING == 2
VERDICT_UNPROVEN == 3
VERDICT_PARTIALLY_TRUE == 4
Verdict == {VERDICT_TRUE, VERDICT_FALSE, VERDICT_MISLEADING, VERDICT_UNPROVEN,
            VERDICT_PARTIALLY_TRUE}
\* enum Severity
SEVERITY_LOW == 0
SEVERITY_MEDIUM == 1
SEVERITY_HIGH == 2
SEVERITY_CRITICAL == 3
Severity == {SEVERITY_LOW, SEVERITY_MEDIUM, SEVERITY_HIGH, SEVERITY_CRITICAL}
\* enum Status
ACTIVE == 0
SUPERSEDED == 1
WITHDRAWN == 2
Status == {ACTIVE, SUPERSEDED, WITHDRAWN}

\* ------------------------------------------------------------- value sets
\* address(0) and the accounts that send transactions
ZeroAddress == "0x0"
Accounts == {"who", "other"}
\* the account that deploys the contract
Deployer == "who"
Address == {ZeroAddress} \cup Accounts
\* bytes32(0) and the fact hashes
ZeroHash == "0x00"
Bytes32 == {ZeroHash, "0xa1", "0xb2"}
\* the empty string and the fact IDs
EmptyString == ""
FactIds == {EmptyString, "who-2025-0001", "who-2025-0002"}
\* the (verdict, severity, issuedAt, lastReviewedAt, version) arguments
\* submitted to addFact: two that pass its checks (the second only once
\* block.timestamp has reached MaxTime), one reviewed before it was issued,
\* one with version 0
Payload(v, s, issuedAt, lastReviewedAt, ver) ==
    [verdict |-> v, severity |-> s, issuedAt |-> issuedAt,
     lastReviewedAt |-> lastReviewedAt, version |-> ver]

Payloads ==
    {Payload(VERDICT_FALSE, SEVERITY_HIGH, 1, 2, 1),
     Payload(VERDICT_PARTIALLY_TRUE, SEVERITY_LOW, MaxTime, MaxTime, MaxVersion),
     Payload(VERDICT_TRUE, SEVERITY_CRITICAL, 2, 1, 1),
     Payload(VERDICT_UNPROVEN, SEVERITY_MEDIUM, 1, 1, 0)}

\* the revert reasons of the require statements
ErrNotOwner == "HealthFactRegistry: caller is not the owner"
ErrAlreadyExists == "HealthFactRegistry: fact already exists"
ErrNotExists == "HealthFactRegistry: fact does not exist"
ErrInvalidHash == "HealthFactRegistry: invalid fact hash"
ErrEmptyId == "HealthFactRegistry: empty fact ID"
ErrVersion == "HealthFactRegistry: version must be >= 1"
ErrFutureIssuedAt == "HealthFactRegistry: future issuedAt timestamp"
ErrReviewedBeforeIssued == "HealthFactRegistry: lastReviewedAt before issuedAt"
ErrIdExists == "HealthFactRegistry: fact ID already exists"
ErrUnchanged == "HealthFactRegistry: status unchanged"
ErrZeroOwner == "HealthFactRegistry: new owner is zero address"
ErrSameOwner == "HealthFactRegistry: new owner is current owner"
Success == "success"

\* ------------------------------------------------------------------ state
VARIABLES
    owner,          \* address public owner
    factsByHash,    \* mapping(bytes32 => HealthFact)
    hashByFactId,   \* mapping(string => bytes32)
    allFactHashes,  \* bytes32[]
    totalFacts,     \* uint256
    blockNumber,    \* block.number
    blockTimestamp, \* block.timestamp
    lastOp,         \* the function the last transaction called
    result,         \* its outcome: Success or the revert reason
    logs            \* the events it emitted

storage == <<owner, factsByHash, hashByFactId, allFactHashes, totalFacts>>
chain == <<blockNumber, blockTimestamp>>
receipt == <<lastOp, result, logs>>
vars == <<owner, factsByHash, hashByFactId, allFactHashes, totalFacts,
          blockNumber, blockTimestamp, lastOp, result, logs>>

\* ------------------------------------------ scripts/add_who_facts.js
VARIABLES
    batch,          \* the fact files of the directory, in readdirSync order
    signer,         \* per run of the script: the account of hre's first signer
    pc,             \* per run: where main() is
    idx,            \* per run: the position of the for loop in factFiles
    successCount,   \* per run: let successCount
    skipCount,      \* per run: let skipCount
    failCount,      \* per run: the console.error lines of the catch block
    pending         \* per run: the addFact transaction that tx.wait() awaits

coordVars == <<batch, signer, pc, idx, successCount, skipCount, failCount, pending>>

\* ------------------------------- canonicalHash.js, computeFactHash
VARIABLES
    shape,          \* "who_json": a WHO fact file; "factData": the form's record
    fact1,          \* a fact record
    fact2,          \* the record after edits
    edits,          \* the number of edits made to fact2
    applied,        \* the function last applied to both records
    canon1,         \* the canonical string of fact1 fed to SHA-256
    canon2,         \* the canonical string of fact2 fed to SHA-256
    hash1,          \* the hash returned for fact1
    hash2           \* the hash returned for fact2

hashVars == <<shape, fact1, fact2, edits, applied, canon1, canon2, hash1, hash2>>

\* ------------------------- NewStatementForm.jsx, PublicFactDetailPage.jsx
VARIABLES
    address,        \* useAccount: the connected wallet account
    isConnected,    \* useAccount: whether a wallet is connected
    prompt,         \* the writeContract request the wallet has not answered yet
    txs,            \* the addFact transactions the wallet has sent, with their receipts
    hash,           \* useWriteContract data: the position in txs of the last one sent, or 0
    isSuccess,      \* useWaitForTransactionReceipt: the receipt of `hash` was fetched
    pendingFact,    \* window.pendingFact
    posts,          \* the POSTs to /api/org/facts, in the order sent
    store,          \* the facts the application store holds
    page            \* PublicFactDetailPage: loading, error and fact

formVars == <<address, isConnected, prompt, txs, hash, isSuccess, pendingFact,
              posts, store, page>>

\* ------------------------------------------------- contractMapping.js
VARIABLES
    verdictInput,   \* the verdict string handed to the mappings
    severityInput,  \* the severity string handed to the mappings
    mapped          \* what the mapping last applied has returned

mapVars == <<verdictInput, severityInput, mapped>>

\* ------------------------------ OrgAuthContext.jsx, ProtectedRoute.jsx
VARIABLES
    token,          \* useState: the access token, or null
    org,            \* useState: the organization profile, or null
    loading,        \* useState: the profile is being loaded
    org_token,      \* localStorage item 'org_token', or null
    Authorization,  \* axios.defaults.headers.common['Authorization'], or null
    requests,       \* the requests the backend has not answered yet
    mounted,        \* OrgAuthProvider has rendered and run its effect
    calls           \* the number of calls made to login, logout, updateWalletAddress

authVars == <<token, org, loading, org_token, Authorization, requests, mounted, calls>>

\* what is not contract state: the script's runs, the hashing functions'
\* values, the frontend
offChain == <<coordVars, hashVars, formVars, mapVars, authVars>>

allVars == <<vars, coordVars, hashVars, formVars, mapVars, authVars>>

\* a slot that holds nothing
Nothing == [defined |-> FALSE]

\* the frontend is not open
FormIdle ==
    /\ address = ZeroAddress
    /\ isConnected = FALSE
    /\ prompt = Nothing
    /\ txs = <<>>
    /\ hash = 0
    /\ isSuccess = FALSE
    /\ pendingFact = Nothing
    /\ posts = <<>>
    /\ store = {}
    /\ page = [loading |-> TRUE, error |-> "", fact |-> Nothing]

\* the value null of JavaScript
Null == "null"

\* no mapping is being applied
MapIdle ==
    /\ verdictInput = ""
    /\ severityInput = ""
    /\ mapped = Nothing

\* the organization pages are not open
AuthIdle ==
    /\ token = Null
    /\ org = Null
    /\ loading = TRUE
    /\ org_token = Null
    /\ Authorization = Null
    /\ requests = <<>>
    /\ mounted = FALSE
    /\ calls = 0

\* no record is being hashed
HashIdle ==
    /\ shape = "none"
    /\ fact1 = <<>>
    /\ fact2 = <<>>
    /\ edits = 0
    /\ applied = "none"
    /\ canon1 = ""
    /\ canon2 = ""
    /\ hash1 = ""
    /\ hash2 = ""


\* the value of a HealthFact slot that was never written
NoFact == [factHash |-> ZeroHash, factId |-> EmptyString, verdict |-> 0,
           severity |-> 0, issuedAt |-> 0, lastReviewedAt |-> 0, version |-> 0,
           status |-> 0, addedBy |-> ZeroAddress, addedAtBlock |-> 0]

\* ---------------------------------------------------------------- events
FactAdded(h, id, v, s, by, issuedAt) ==
    [event |-> "FactAdded", factHash |-> h, factId |-> id, verdict |-> v,
     severity |-> s, addedBy |-> by, issuedAt |-> issuedAt]

\* mutant: the event carries the two statuses the wrong way round
FactUpdatedSwapped(h, id, old, new, by, at) ==
    [event |-> "FactUpdated", factHash |-> h, factId |-> id, oldStatus |-> new,
     newStatus |-> old, updatedBy |-> by, updatedAt |-> at]

FactUpdated(h, id, old, new, by, at) ==
    [event |-> "FactUpdated", factHash |-> h, factId |-> id, oldStatus |-> old,
     newStatus |-> new, updatedBy |-> by, updatedAt |-> at]

OwnershipTransferred(prev, new, at) ==
    [event |-> "OwnershipTransferred", previousOwner |-> prev, newOwner |-> new,
     transferredAt |-> at]

\* -------------------------------------------------------------- modifiers
\* mutant: any caller that is not the zero address passes
onlyOwnerAnyCaller(sender) == sender # ZeroAddress

onlyOwner(sender) == sender = owner

\* mutant: the modifier only rejects the zero hash
factNotExistsNonZero(h) == h # ZeroHash

factNotExists(h) == factsByHash[h].factHash = ZeroHash

\* mutant: the modifier lets every hash pass
factExistsUnchecked(h) == TRUE

factExists(h) == factsByHash[h].factHash # ZeroHash

\* a transaction that reverts: storage as before, no event
Revert(op, reason) ==
    /\ lastOp' = op
    /\ result' = reason
    /\ logs' = <<>>
    /\ UNCHANGED storage
    /\ UNCHANGED chain

\* ------------------------------------------------------------ constructor
constructor ==
    /\ owner = Deployer
    /\ factsByHash = [h \in Bytes32 |-> NoFact]
    /\ hashByFactId = [id \in FactIds |-> ZeroHash]
    /\ allFactHashes = <<>>
    /\ totalFacts = 0
    /\ blockNumber = 1
    /\ blockTimestamp = 1
    /\ lastOp = "constructor"
    /\ result = Success
    /\ logs = <<OwnershipTransferred(ZeroAddress, owner, blockTimestamp)>>

\* ---------------------------------------------------------------- addFact
\* mutant: version 0 passes
validVersionFromZero(ver) == ver >= 0

\* require(_version > 0)
validVersion(ver) == ver > 0

\* require(_issuedAt <= block.timestamp)
notFutureIssuedAt(issuedAt) == issuedAt <= blockTimestamp

\* require(_lastReviewedAt >= _issuedAt)
reviewedNotBeforeIssued(issuedAt, lastReviewedAt) == lastReviewedAt >= issuedAt

\* mutant: a fact ID is free again once its fact is not ACTIVE
factIdUnusedWhenInactive(id) ==
    \/ hashByFactId[id] = ZeroHash
    \/ factsByHash[hashByFactId[id]].status # ACTIVE

\* mutant: the fact ID check is missing
factIdUnusedUnchecked(id) == TRUE

\* mutant: a fact ID is free again once its hash is no longer ACTIVE
factIdUnusedOrRetired(id) ==
    \/ hashByFactId[id] = ZeroHash
    \/ factsByHash[hashByFactId[id]].status # ACTIVE

\* require(hashByFactId[_factId] == bytes32(0))
factIdUnused(id) == hashByFactId[id] = ZeroHash

\* the first require of addFact that fails, in the order the modifiers and
\* the body evaluate them
addFactResult(sender, h, id, issuedAt, lastReviewedAt, ver) ==
    IF ~onlyOwner(sender) THEN ErrNotOwner
    ELSE IF ~factNotExists(h) THEN ErrAlreadyExists
    ELSE IF ~(h # ZeroHash) THEN ErrInvalidHash
    ELSE IF ~(Len(id) > 0) THEN ErrEmptyId
    ELSE IF ~validVersion(ver) THEN ErrVersion
    ELSE IF ~notFutureIssuedAt(issuedAt) THEN ErrFutureIssuedAt
    ELSE IF ~reviewedNotBeforeIssued(issuedAt, lastReviewedAt)
         THEN ErrReviewedBeforeIssued
    ELSE IF ~factIdUnused(id) THEN ErrIdExists
    ELSE Success

\* mutant: the entry is stored without its hash
newFactWithoutHash(sender, h, id, v, s, issuedAt, lastReviewedAt, ver) ==
    [factHash |-> ZeroHash, factId |-> id, verdict |-> v, severity |-> s,
     issuedAt |-> issuedAt, lastReviewedAt |-> lastReviewedAt, version |-> ver,
     status |-> ACTIVE, addedBy |-> sender, addedAtBlock |-> blockNumber]

\* mutant: issuedAt and lastReviewedAt are stored in each other's field
newFactSwappedTimes(sender, h, id, v, s, issuedAt, lastReviewedAt, ver) ==
    [factHash |-> h, factId |-> id, verdict |-> v, severity |-> s,
     issuedAt |-> lastReviewedAt, lastReviewedAt |-> issuedAt, version |-> ver,
     status |-> ACTIVE, addedBy |-> sender, addedAtBlock |-> blockNumber]

newFact(sender, h, id, v, s, issuedAt, lastReviewedAt, ver) ==
    [factHash |-> h, factId |-> id, verdict |-> v, severity |-> s,
     issuedAt |-> issuedAt, lastReviewedAt |-> lastReviewedAt, version |-> ver,
     status |-> ACTIVE, addedBy |-> sender, addedAtBlock |-> blockNumber]

addFact(sender, h, id, v, s, issuedAt, lastReviewedAt, ver) ==
    LET res == addFactResult(sender, h, id, issuedAt, lastReviewedAt, ver) IN
    IF res # Success THEN Revert("addFact", res)
    ELSE
        /\ factsByHash' = [factsByHash EXCEPT ![h] =
               newFact(sender, h, id, v, s, issuedAt, lastReviewedAt, ver)]
        /\ hashByFactId' = [hashByFactId EXCEPT ![id] = h]
        /\ allFactHashes' = Append(allFactHashes, h)
        /\ totalFacts' = totalFacts + 1
        /\ lastOp' = "addFact"
        /\ result' = Success
        /\ logs' = <<FactAdded(h, id, v, s, sender, issuedAt)>>
        /\ UNCHANGED owner
        /\ UNCHANGED chain

\* ------------------------------------------------------- updateFactStatus
\* mutant: the status-unchanged check is missing
statusChangesUnchecked(oldStatus, newStatus) == TRUE

\* mutant: a status update also stamps lastReviewedAt
setStatusAndReview(fact, newStatus) ==
    [fact EXCEPT !.status = newStatus, !.lastReviewedAt = blockTimestamp]

\* mutant: withdrawing a fact deletes its slot
setStatusOrDelete(fact, newStatus) ==
    IF newStatus = WITHDRAWN THEN NoFact ELSE [fact EXCEPT !.status = newStatus]

\* require(oldStatus != _newStatus)
statusChanges(oldStatus, newStatus) == oldStatus # newStatus

\* fact.status = _newStatus, on the storage slot of the fact
setStatus(fact, newStatus) == [fact EXCEPT !.status = newStatus]

updateFactStatusResult(sender, h, newStatus) ==
    IF ~onlyOwner(sender) THEN ErrNotOwner
    ELSE IF ~factExists(h) THEN ErrNotExists
    ELSE IF ~statusChanges(factsByHash[h].status, newStatus) THEN ErrUnchanged
    ELSE Success

updateFactStatus(sender, h, newStatus) ==
    LET res == updateFactStatusResult(sender, h, newStatus) IN
    IF res # Success THEN Revert("updateFactStatus", res)
    ELSE
        /\ factsByHash' = [factsByHash EXCEPT ![h] = setStatus(@, newStatus)]
        /\ lastOp' = "updateFactStatus"
        /\ result' = Success
        /\ logs' = <<FactUpdated(h, factsByHash[h].factId, factsByHash[h].status,
                                 newStatus, sender, blockTimestamp)>>
        /\ UNCHANGED <<owner, hashByFactId, allFactHashes, totalFacts>>
        /\ UNCHANGED chain

\* ------------------------------------------------------ transferOwnership
\* mutant: the zero-address check is missing
transferOwnershipResultNoZeroCheck(sender, newOwner) ==
    IF ~onlyOwner(sender) THEN ErrNotOwner
    ELSE IF ~(newOwner # owner) THEN ErrSameOwner
    ELSE Success

transferOwnershipResult(sender, newOwner) ==
    IF ~onlyOwner(sender) THEN ErrNotOwner
    ELSE IF ~(newOwner # ZeroAddress) THEN ErrZeroOwner
    ELSE IF ~(newOwner # owner) THEN ErrSameOwner
    ELSE Success

transferOwnership(sender, newOwner) ==
    LET res == transferOwnershipResult(sender, newOwner) IN
    IF res # Success THEN Revert("transferOwnership", res)
    ELSE
        /\ owner' = newOwner
        /\ lastOp' = "transferOwnership"
        /\ result' = Success
        /\ logs' = <<OwnershipTransferred(owner, newOwner, blockTimestamp)>>
        /\ UNCHANGED <<factsByHash, hashByFactId, allFactHashes, totalFacts>>
        /\ UNCHANGED chain

\* ------------------------------------------------------------------ views
Reverted(reason) == [reverted |-> reason]

getFactByHash(h) ==
    IF ~factExists(h) THEN Reverted(ErrNotExists) ELSE factsByHash[h]

\* mutant: the lookup by ID only returns ACTIVE entries
getFactByIdActiveOnly(id) ==
    LET factHash == hashByFactId[id] IN
    IF ~(factHash # ZeroHash /\ factsByHash[factHash].status = ACTIVE)
    THEN Reverted("HealthFactRegistry: fact ID not found")
    ELSE factsByHash[factHash]

getFactById(id) ==
    LET factHash == hashByFactId[id] IN
    IF ~(factHash # ZeroHash) THEN Reverted("HealthFactRegistry: fact ID not found")
    ELSE factsByHash[factHash]

checkFactExists(h) ==
    LET fact == factsByHash[h] IN
    [exists |-> (fact.factHash # ZeroHash), status |-> fact.status]

getAllFactHashes == allFactHashes

\* ------------------------------------------- /api/check_rumor (the backend)
\* the answer that directs the caller to the AI fallback
NoAuthoritativeMatch ==
    [outcome |-> "NoAuthoritativeMatch", on_chain_verified |-> FALSE,
     who_fact_id |-> EmptyString, verification_method |-> "AI"]

\* the answer backed by the registry entry
Verified(fact) ==
    [outcome |-> "Verified", on_chain_verified |-> TRUE,
     who_fact_id |-> fact.factId, verification_method |-> "WHO Blockchain Registry"]

\* mutant: every entry that exists verifies, whatever its status
verifyIgnoresStatus(h) ==
    IF checkFactExists(h).exists THEN Verified(factsByHash[h])
    ELSE NoAuthoritativeMatch

\* the verification of a claim resolved to the hash h: checkFactExists(h),
\* and the entry's data when it exists and is ACTIVE
verify(h) ==
    LET probe == checkFactExists(h) IN
    IF probe.exists /\ probe.status = ACTIVE THEN Verified(factsByHash[h])
    ELSE NoAuthoritativeMatch

\* ------------------------------------------------------------ environment
\* the chain produces the next block
NewBlock ==
    /\ blockTimestamp < MaxTime
    /\ blockNumber' = blockNumber + 1
    /\ blockTimestamp' = blockTimestamp + 1
    /\ UNCHANGED storage
    /\ UNCHANGED receipt
    /\ UNCHANGED offChain

AddFactCall ==
    /\ \E sender \in Accounts, h \in Bytes32, id \in FactIds, p \in Payloads :
           addFact(sender, h, id, p.verdict, p.severity, p.issuedAt,
                   p.lastReviewedAt, p.version)
    /\ UNCHANGED offChain

UpdateFactStatusCall ==
    /\ \E sender \in Accounts, h \in Bytes32, newStatus \in Status :
           updateFactStatus(sender, h, newStatus)
    /\ UNCHANGED offChain

TransferOwnershipCall ==
    /\ \E sender \in Accounts, newOwner \in Address :
           transferOwnership(sender, newOwner)
    /\ UNCHANGED offChain

Next ==
    \/ AddFactCall
    \/ UpdateFactStatusCall
    \/ TransferOwnershipCall
    \/ NewBlock


\* ============================================== scripts/add_who_facts.js
\* the largest number of fact files in backend/app/data/who_facts
MaxBatch == 2

\* the runs of the script
Runs == {"run1", "run2"}

\* no transaction awaited
NoTx == [sent |-> FALSE]

\* a fact file: whether JSON.parse accepts it, the value of computeFactHash
\* for it (abbreviated), and its fields (timestamps as the milliseconds Date gives)
FactFile(digest, id, verdict, severity, issuedMs, reviewedMs, ver) ==
    [parses |-> TRUE, sha256 |-> digest, id |-> id, verdict |-> verdict,
     severity |-> severity, issued_at |-> issuedMs, last_reviewed_at |-> reviewedMs,
     version |-> ver]

\* a file that is not JSON
MalformedFile == [parses |-> FALSE]

\* who-2025-0001.json, who-2025-0002.json (issued at MaxTime), a broken file
FactFiles ==
    {FactFile("0xa1", "who-2025-0001", "false", "high", 1500, 2000, 1),
     FactFile("0xb2", "who-2025-0002", "partially_true", "low",
              MaxTime * 1000, MaxTime * 1000 + 999, MaxVersion),
     MalformedFile}

RECURSIVE SeqsUpTo(_, _)
SeqsUpTo(S, n) ==
    IF n = 0 THEN {<<>>}
    ELSE LET shorter == SeqsUpTo(S, n - 1) IN
         shorter \cup {Append(q, x) : q \in {t \in shorter : Len(t) = n - 1}, x \in S}

Batches == SeqsUpTo(FactFiles, MaxBatch) \ {<<>>}

verdictToEnum(verdict) ==
    CASE verdict = "true" -> 0
      [] verdict = "false" -> 1
      [] verdict = "misleading" -> 2
      [] verdict = "unproven" -> 3
      [] verdict = "partially_true" -> 4
      [] OTHER -> "undefined"

severityToEnum(severity) ==
    CASE severity = "low" -> 0
      [] severity = "medium" -> 1
      [] severity = "high" -> 2
      [] severity = "critical" -> 3
      [] OTHER -> "undefined"

isoToUnix(ms) == ms \div 1000

\* no run of the script has started
CoordIdle ==
    /\ batch = <<>>
    /\ signer = [r \in Runs |-> ZeroAddress]
    /\ pc = [r \in Runs |-> "idle"]
    /\ idx = [r \in Runs |-> 0]
    /\ successCount = [r \in Runs |-> 0]
    /\ skipCount = [r \in Runs |-> 0]
    /\ failCount = [r \in Runs |-> 0]
    /\ pending = [r \in Runs |-> NoTx]

\* the registry is deployed, the directory holds the fact files, the script
\* has not been started
CoordInit ==
    /\ constructor
    /\ HashIdle
    /\ FormIdle
    /\ MapIdle
    /\ AuthIdle
    /\ batch \in Batches
    /\ signer \in [Runs -> Accounts]
    /\ pc = [r \in Runs |-> "idle"]
    /\ idx = [r \in Runs |-> 0]
    /\ successCount = [r \in Runs |-> 0]
    /\ skipCount = [r \in Runs |-> 0]
    /\ failCount = [r \in Runs |-> 0]
    /\ pending = [r \in Runs |-> NoTx]

\* main() up to the owner check
Start(r) ==
    /\ pc[r] = "idle"
    /\ pc' = [pc EXCEPT ![r] = "checkOwner"]
    /\ UNCHANGED <<batch, signer, idx, successCount, skipCount, failCount, pending>>
    /\ UNCHANGED vars
    /\ UNCHANGED <<hashVars, formVars, mapVars, authVars>>

\* mutant: the script does not compare the owner with the signer
CheckOwnerSkipped(r) ==
    /\ pc[r] = "checkOwner"
    /\ pc' = [pc EXCEPT ![r] = "load"]
    /\ idx' = [idx EXCEPT ![r] = 1]
    /\ UNCHANGED <<batch, signer, successCount, skipCount, failCount, pending>>
    /\ UNCHANGED vars
    /\ UNCHANGED <<hashVars, formVars, mapVars, authVars>>

\* const owner = await registry.owner(); throw if it is not the signer
CheckOwner(r) ==
    /\ pc[r] = "checkOwner"
    /\ IF owner # signer[r]
       THEN /\ pc' = [pc EXCEPT ![r] = "aborted"]
            /\ UNCHANGED idx
       ELSE /\ pc' = [pc EXCEPT ![r] = "load"]
            /\ idx' = [idx EXCEPT ![r] = 1]
    /\ UNCHANGED <<batch, signer, successCount, skipCount, failCount, pending>>
    /\ UNCHANGED vars
    /\ UNCHANGED <<hashVars, formVars, mapVars, authVars>>

\* the head of the for loop: JSON.parse of the next file, which throws out
\* of main() for a file that is not JSON
Load(r) ==
    /\ pc[r] = "load"
    /\ pc' = [pc EXCEPT ![r] =
                 IF idx[r] > Len(batch) THEN "report"
                 ELSE IF ~batch[idx[r]].parses THEN "aborted"
                 ELSE "probe"]
    /\ UNCHANGED <<batch, signer, idx, successCount, skipCount, failCount, pending>>
    /\ UNCHANGED vars
    /\ UNCHANGED <<hashVars, formVars, mapVars, authVars>>

\* mutant: no fact is ever skipped
shouldSkipNever(probe) == FALSE

\* if (exists)
shouldSkip(probe) == probe.exists

\* computeFactHash (the file's sha256), checkFactExists, and the skip of a registered fact
Probe(r) ==
    /\ pc[r] = "probe"
    /\ LET factHash == batch[idx[r]].sha256 IN
       IF shouldSkip(checkFactExists(factHash))
       THEN /\ skipCount' = [skipCount EXCEPT ![r] = @ + 1]
            /\ idx' = [idx EXCEPT ![r] = @ + 1]
            /\ pc' = [pc EXCEPT ![r] = "load"]
       ELSE /\ pc' = [pc EXCEPT ![r] = "submit"]
            /\ UNCHANGED <<skipCount, idx>>
    /\ UNCHANGED <<batch, signer, successCount, failCount, pending>>
    /\ UNCHANGED vars
    /\ UNCHANGED <<hashVars, formVars, mapVars, authVars>>

\* the arguments of registry.addFact for a fact file
addFactArgs(factJson) ==
    [factHash |-> factJson.sha256, factId |-> factJson.id,
     verdict |-> verdictToEnum(factJson.verdict),
     severity |-> severityToEnum(factJson.severity),
     issuedAt |-> isoToUnix(factJson.issued_at),
     lastReviewedAt |-> isoToUnix(factJson.last_reviewed_at),
     version |-> factJson.version]

\* mutant: the script sends the transaction and goes on to the next file
\* without awaiting tx.wait()
SubmitWithoutWaiting(r) ==
    /\ pc[r] = "submit"
    /\ pending' = [pending EXCEPT ![r] =
                      [sent |-> TRUE, args |-> addFactArgs(batch[idx[r]])]]
    /\ idx' = [idx EXCEPT ![r] = @ + 1]
    /\ successCount' = [successCount EXCEPT ![r] = @ + 1]
    /\ pc' = [pc EXCEPT ![r] = "load"]
    /\ UNCHANGED <<batch, signer, skipCount, failCount>>
    /\ UNCHANGED vars
    /\ UNCHANGED <<hashVars, formVars, mapVars, authVars>>

\* const tx = await registry.addFact(...): the transaction is sent
Submit(r) ==
    /\ pc[r] = "submit"
    /\ pending' = [pending EXCEPT ![r] =
                      [sent |-> TRUE, args |-> addFactArgs(batch[idx[r]])]]
    /\ pc' = [pc EXCEPT ![r] = "wait"]
    /\ UNCHANGED <<batch, signer, idx, successCount, skipCount, failCount>>
    /\ UNCHANGED vars
    /\ UNCHANGED <<hashVars, formVars, mapVars, authVars>>

\* mutant: the catch block counts the fact as registered
CaughtAsSuccess(r) ==
    /\ successCount' = [successCount EXCEPT ![r] = @ + 1]
    /\ UNCHANGED <<failCount, skipCount>>

\* catch (error) { console.error(...) }
Caught(r) ==
    /\ failCount' = [failCount EXCEPT ![r] = @ + 1]
    /\ UNCHANGED <<successCount, skipCount>>

\* successCount++
Confirmed(r) ==
    /\ successCount' = [successCount EXCEPT ![r] = @ + 1]
    /\ UNCHANGED <<failCount, skipCount>>

\* await tx.wait(): the transaction is mined; a revert is thrown into the
\* catch block; either way the loop goes to the next file
Wait(r) ==
    /\ pc[r] = "wait"
    /\ LET a == pending[r].args IN
       addFact(signer[r], a.factHash, a.factId, a.verdict, a.severity,
               a.issuedAt, a.lastReviewedAt, a.version)
    /\ IF result' = Success THEN Confirmed(r) ELSE Caught(r)
    /\ pending' = [pending EXCEPT ![r] = NoTx]
    /\ idx' = [idx EXCEPT ![r] = @ + 1]
    /\ pc' = [pc EXCEPT ![r] = "load"]
    /\ UNCHANGED <<batch, signer>>
    /\ UNCHANGED <<hashVars, formVars, mapVars, authVars>>

\* the final summary
Report(r) ==
    /\ pc[r] = "report"
    /\ pc' = [pc EXCEPT ![r] = "done"]
    /\ UNCHANGED <<batch, signer, idx, successCount, skipCount, failCount, pending>>
    /\ UNCHANGED vars
    /\ UNCHANGED <<hashVars, formVars, mapVars, authVars>>

RunStep(r) ==
    \/ CheckOwner(r)
    \/ Load(r)
    \/ Probe(r)
    \/ Submit(r)
    \/ Wait(r)
    \/ Report(r)

\* runs of the script started at any time, by the same or different signers
CoordNext ==
    \/ \E r \in Runs : Start(r)
    \/ \E r \in Runs : RunStep(r)
    \/ NewBlock

CoordSpec == CoordInit /\ [][CoordNext]_allVars

\* the script is run twice, the second run after the first has ended
StartInSequence(r) ==
    /\ Start(r)
    /\ IF r = "run1" THEN pc["run2"] = "idle"
       ELSE pc["run1"] \in {"done", "aborted"}

CoordSeqNext ==
    \/ \E r \in Runs : StartInSequence(r)
    \/ \E r \in Runs : RunStep(r)
    \/ NewBlock

CoordSeqSpec == CoordInit /\ [][CoordSeqNext]_allVars

\* ========================== frontend/src/utils/canonicalHash.js, computeFactHash
\* the largest number of edits that tell the second record from the first
MaxEdits == 2

\* ---------------------------------------------------------- JavaScript values
JString(s) == [t |-> "string", s |-> s, n |-> 0, a |-> <<>>, o |-> <<>>]

JNumber(n) == [t |-> "number", s |-> "", n |-> n, a |-> <<>>, o |-> <<>>]

JNull == [t |-> "null", s |-> "", n |-> 0, a |-> <<>>, o |-> <<>>]

JUndefined == [t |-> "undefined", s |-> "", n |-> 0, a |-> <<>>, o |-> <<>>]

\* the number NaN
JNaN == [t |-> "NaN", s |-> "", n |-> 0, a |-> <<>>, o |-> <<>>]

\* an array of values
JArray(a) == [t |-> "array", s |-> "", n |-> 0, a |-> a, o |-> <<>>]

\* an object: its members [k |-> key, v |-> value] in insertion order
JObject(o) == [t |-> "object", s |-> "", n |-> 0, a |-> <<>>, o |-> o]

Member(k, v) == [k |-> k, v |-> v]

\* obj[key]
Get(obj, key) ==
    IF \E i \in DOMAIN obj.o : obj.o[i].k = key
    THEN obj.o[CHOOSE i \in DOMAIN obj.o : obj.o[i].k = key].v
    ELSE JUndefined

\* obj with obj[key] = v: an existing member keeps its place, a new one is last
Put(obj, key, v) ==
    IF \E i \in DOMAIN obj.o : obj.o[i].k = key
    THEN JObject([i \in DOMAIN obj.o |->
                     IF obj.o[i].k = key THEN Member(key, v) ELSE obj.o[i]])
    ELSE JObject(Append(obj.o, Member(key, v)))

\* Object.keys(obj)
Keys(obj) == [i \in DOMAIN obj.o |-> obj.o[i].k]

\* the member names that occur, in the order of their UTF-16 code units
KeyOrder ==
    <<"claim", "claim_text", "evidence", "fact_id", "id", "issued_at",
      "last_reviewed_at", "severity", "status", "summary", "title", "topics",
      "url", "verdict", "version">>

\* mutant: the keys stay in insertion order
sortKeepsInsertionOrder(keys) == keys

\* keys.sort() for distinct keys
sort(keys) ==
    LET occurs(k) == \E i \in DOMAIN keys : keys[i] = k
    IN  SelectSeq(KeyOrder, occurs)

RECURSIVE join(_)
\* parts.join(',')
join(parts) ==
    IF Len(parts) = 0 THEN ""
    ELSE IF Len(parts) = 1 THEN parts[1]
    ELSE parts[1] \o "," \o join(Tail(parts))

\* JSON.stringify of a value that is not an object, as template text
stringify(v) ==
    CASE v.t = "string" -> "\"" \o v.s \o "\""
      [] v.t = "number" -> ToString(v.n)
      [] v.t = "null" -> "null"
      [] v.t = "NaN" -> "null"
      [] OTHER -> "undefined"

RECURSIVE canonicalizeJSON(_)
canonicalizeJSON(obj) ==
    IF obj.t \notin {"array", "object"} THEN stringify(obj)
    ELSE IF obj.t = "array"
    THEN "[" \o join([i \in DOMAIN obj.a |->
                         IF obj.a[i].t = "undefined" THEN ""
                         ELSE canonicalizeJSON(obj.a[i])]) \o "]"
    ELSE LET keys == sort(Keys(obj))
             pairs == [i \in DOMAIN keys |->
                          "\"" \o keys[i] \o "\":" \o canonicalizeJSON(Get(obj, keys[i]))]
         IN  "{" \o join(pairs) \o "}"

\* x || []
orEmptyArray(x) ==
    IF x.t \in {"undefined", "null"} \/ x = JString("") \/ x = JNumber(0)
    THEN JArray(<<>>)
    ELSE x

\* SHA-256 as hex, taken to be free of collisions: the digest names its input
sha256(text) == "sha256(" \o text \o ")"

\* const factObj = {...}; const canonical = canonicalizeJSON(factObj)
hashFactJSONCanonical(factData) ==
    canonicalizeJSON(JObject(<<
        Member("id", Get(factData, "fact_id")),
        Member("claim", Get(factData, "claim_text")),
        Member("verdict", Get(factData, "verdict")),
        Member("severity", Get(factData, "severity")),
        Member("summary", Get(factData, "summary")),
        Member("evidence", orEmptyArray(Get(factData, "evidence"))),
        Member("topics", orEmptyArray(Get(factData, "topics"))),
        Member("issued_at", Get(factData, "issued_at")),
        Member("last_reviewed_at", Get(factData, "issued_at")),
        Member("version", JNumber(1)),
        Member("status", JString("active"))>>))

\* viem's sha256 of the encoded text: a 0x-prefixed hex string
viemSha256(text) == "0x" \o sha256(text)

hashFactJSON(factData) == viemSha256(hashFactJSONCanonical(factData))

RECURSIVE canonicalize(_)
\* json-canonicalize (RFC 8785): members sorted by key, a member whose value
\* is undefined left out, undefined in an array written as null
canonicalize(v) ==
    IF v.t \notin {"array", "object"} THEN stringify(v)
    ELSE IF v.t = "array"
    THEN "[" \o join([i \in DOMAIN v.a |->
                         IF v.a[i].t = "undefined" THEN "null"
                         ELSE canonicalize(v.a[i])]) \o "]"
    ELSE LET present(k) == Get(v, k).t # "undefined"
             keys == SelectSeq(sort(Keys(v)), present)
             pairs == [i \in DOMAIN keys |->
                          "\"" \o keys[i] \o "\":" \o canonicalize(Get(v, keys[i]))]
         IN  "{" \o join(pairs) \o "}"

computeFactHash(factJson) == "0x" \o sha256(canonicalize(factJson))

\* ------------------------------------------------------------- fact records
Evidence(url, title) ==
    JObject(<<Member("url", JString(url)), Member("title", JString(title))>>)

SampleEvidence ==
    JArray(<<Evidence("https://www.who.int/a", "WHO Myth Busters"),
             Evidence("https://www.who.int/b", "WHO Q&A")>>)

\* a WHO fact file after JSON.parse
WhoFactJson ==
    JObject(<<
        Member("id", JString("who-2025-0001")),
        Member("claim_text", JString("Drinking hot water cures COVID-19")),
        Member("verdict", JString("false")),
        Member("severity", JString("high")),
        Member("summary", JString("No evidence supports the claim")),
        Member("evidence", SampleEvidence),
        Member("topics", JArray(<<JString("covid-19")>>)),
        Member("issued_at", JString("2025-01-15T12:00:00Z")),
        Member("last_reviewed_at", JString("2025-01-15T12:00:00Z")),
        Member("version", JNumber(1)),
        Member("status", JString("active"))>>)

\* a fact record in the names the form gives it
FormFactData ==
    JObject(<<
        Member("fact_id", JString("org-fact-1736942400000")),
        Member("claim_text", JString("Drinking hot water cures COVID-19")),
        Member("verdict", JString("false")),
        Member("severity", JString("high")),
        Member("summary", JString("No evidence supports the claim")),
        Member("topics", JArray(<<JString("covid-19")>>)),
        Member("evidence", SampleEvidence),
        Member("issued_at", JString("2025-01-15T12:00:00Z")),
        Member("last_reviewed_at", JString("2025-01-15T12:00:00Z")),
        Member("version", JNumber(1)),
        Member("status", JString("active"))>>)

Shapes == {"who_json", "factData"}

BaseFact(sh) == IF sh = "who_json" THEN WhoFactJson ELSE FormFactData

StatusNames == {"active", "superseded", "withdrawn"}

\* the fields of a record other than its status and its topics
SubstantiveKeys(sh) ==
    {IF sh = "who_json" THEN "id" ELSE "fact_id", "claim_text", "verdict",
     "severity", "summary", "evidence", "issued_at", "last_reviewed_at", "version"}

\* s with its members i and i + 1 exchanged
swap(s, i) ==
    [j \in DOMAIN s |-> IF j = i THEN s[i + 1] ELSE IF j = i + 1 THEN s[i] ELSE s[j]]

\* other values of a field
AltValues(old) ==
    CASE old.t = "number" -> {JNumber(old.n + 1)}
      [] old.t = "array" ->
            {JArray(swap(old.a, 1)) : x \in {z \in {1} : Len(old.a) > 1}}
                \cup {JArray(Tail(old.a)) : x \in {z \in {1} : Len(old.a) > 0}}
      [] OTHER -> {JString(old.s \o "!")}

\* the records are there, no function has been applied
HashInit ==
    /\ constructor
    /\ CoordIdle
    /\ FormIdle
    /\ MapIdle
    /\ AuthIdle
    /\ shape \in Shapes
    /\ fact1 = BaseFact(shape)
    /\ fact2 = fact1
    /\ edits = 0
    /\ applied = "none"
    /\ canon1 = ""
    /\ canon2 = ""
    /\ hash1 = ""
    /\ hash2 = ""

\* the second record becomes `record`, before a function is applied
Edit(record) ==
    /\ edits < MaxEdits
    /\ applied = "none"
    /\ record # fact2
    /\ fact2' = record
    /\ edits' = edits + 1
    /\ applied' = "none"
    /\ canon1' = ""
    /\ canon2' = ""
    /\ hash1' = ""
    /\ hash2' = ""
    /\ UNCHANGED <<shape, fact1>>
    /\ UNCHANGED <<vars, coordVars, formVars, mapVars, authVars>>

\* two neighbouring members of the record change places
SwapKeys ==
    \E i \in 1..(Len(fact2.o) - 1) : Edit(JObject(swap(fact2.o, i)))

\* the two members of the first evidence entry change places
SwapEvidenceKeys ==
    LET ev == Get(fact2, "evidence") IN
    /\ ev.t = "array"
    /\ Len(ev.a) > 0
    /\ ev.a[1].t = "object"
    /\ Len(ev.a[1].o) > 1
    /\ Edit(Put(fact2, "evidence",
                JArray([ev.a EXCEPT ![1] = JObject(swap(ev.a[1].o, 1))])))

\* the status of the record changes
SetStatus ==
    \E st \in StatusNames : Edit(Put(fact2, "status", JString(st)))

\* a substantive field of the record changes
SetField ==
    \E k \in SubstantiveKeys(shape) :
        \E v \in AltValues(Get(fact2, k)) : Edit(Put(fact2, k, v))

\* obj without obj[key]
Delete(obj, key) ==
    LET kept(m) == m.k # key IN JObject(SelectSeq(obj.o, kept))

\* a substantive field of the record is absent
RemoveField ==
    \E k \in SubstantiveKeys(shape) : Edit(Delete(fact2, k))

\* the version the form's record carries is not a finite number
SetNonFinite ==
    /\ shape = "factData"
    /\ Edit(Put(fact2, "version", JNaN))

\* obj with the member named `from` named `to`
Rename(obj, from, to) ==
    JObject([i \in DOMAIN obj.o |->
                IF obj.o[i].k = from THEN Member(to, obj.o[i].v) ELSE obj.o[i]])

\* the record in the names the form gives its fields
asFactData(record) == Rename(record, "id", "fact_id")

\* the record in the names of the WHO fact schema
asWhoJson(record) == Rename(record, "fact_id", "id")

\* both records are given to a function
Apply(fn, c1, c2, h1, h2) ==
    /\ applied = "none"
    /\ applied' = fn
    /\ canon1' = c1
    /\ canon2' = c2
    /\ hash1' = h1
    /\ hash2' = h2
    /\ UNCHANGED <<shape, fact1, fact2, edits>>
    /\ UNCHANGED <<vars, coordVars, formVars, mapVars, authVars>>

ApplyCanonicalizeJSON ==
    Apply("canonicalizeJSON", canonicalizeJSON(fact1), canonicalizeJSON(fact2), "", "")

ApplyHashFactJSON ==
    /\ shape = "factData"
    /\ Apply("hashFactJSON", hashFactJSONCanonical(fact1), hashFactJSONCanonical(fact2),
             hashFactJSON(fact1), hashFactJSON(fact2))

ApplyComputeFactHash ==
    /\ shape = "who_json"
    /\ Apply("computeFactHash", canonicalize(fact1), canonicalize(fact2),
             computeFactHash(fact1), computeFactHash(fact2))

\* the second record goes down both paths: hashFactJSON in the browser
\* (values 1) and computeFactHash in the script (values 2)
ApplyBothPaths ==
    Apply("bothPaths",
          hashFactJSONCanonical(asFactData(fact2)), canonicalize(asWhoJson(fact2)),
          hashFactJSON(asFactData(fact2)), computeFactHash(asWhoJson(fact2)))

HashNext ==
    \/ SwapKeys
    \/ RemoveField
    \/ SetNonFinite
    \/ ApplyBothPaths
    \/ SwapEvidenceKeys
    \/ SetStatus
    \/ SetField
    \/ ApplyCanonicalizeJSON
    \/ ApplyHashFactJSON
    \/ ApplyComputeFactHash

HashSpec == HashInit /\ [][HashNext]_allVars

\* ============== frontend: NewStatementForm.jsx, PublicFactDetailPage.jsx
\* the largest number of addFact transactions the form sends
MaxSubmits == 2

\* the five verdict strings and the four severity strings
VerdictNames == {"true", "false", "misleading", "unproven", "partially_true"}

SeverityNames == {"low", "medium", "high", "critical"}

\* String.prototype.toLowerCase, on the strings handed to the mappings
toLowerCase(str) ==
    CASE str = "TRUE" -> "true"
      [] str = "False" -> "false"
      [] str = "HIGH" -> "high"
      [] str = "Constructor" -> "constructor"
      [] str = "toString" -> "tostring"
      [] str = "valueOf" -> "valueof"
      [] OTHER -> str

\* a function or object that is neither a number nor a string
JFunction(name) == [t |-> "function", s |-> name, n |-> 0, a |-> <<>>, o |-> <<>>]

\* the property names an object literal inherits from Object.prototype
ObjectPrototype ==
    {"constructor", "__proto__", "toString", "valueOf", "hasOwnProperty"}

\* map[key] of an object literal: the own property, else the inherited one,
\* else undefined
PropertyOf(map, key) ==
    IF key \in DOMAIN map THEN JNumber(map[key])
    ELSE IF key \in ObjectPrototype THEN JFunction(key)
    ELSE JUndefined

\* value ?? fallback
NullishCoalescing(value, fallback) ==
    IF value.t \in {"undefined", "null"} THEN fallback ELSE value

\* contractMapping.js: const map of verdictToEnum
VerdictMap ==
    [name \in VerdictNames |->
        CASE name = "true" -> 0
          [] name = "false" -> 1
          [] name = "misleading" -> 2
          [] name = "unproven" -> 3
          [] name = "partially_true" -> 4]

\* contractMapping.js: const map of severityToEnum
SeverityMap ==
    [name \in SeverityNames |->
        CASE name = "low" -> 0
          [] name = "medium" -> 1
          [] name = "high" -> 2
          [] name = "critical" -> 3]

\* contractMapping.js: verdictToEnum, map[verdict.toLowerCase()] ?? 3
contractMappingVerdictToEnum(verdict) ==
    NullishCoalescing(PropertyOf(VerdictMap, toLowerCase(verdict)), JNumber(3))

\* contractMapping.js: severityToEnum, map[severity.toLowerCase()] ?? 0
contractMappingSeverityToEnum(severity) ==
    NullishCoalescing(PropertyOf(SeverityMap, toLowerCase(severity)), JNumber(0))

\* map[enumValue] || fallback, for an array of non-empty strings
ElementOr(map, enumValue, fallback) ==
    IF enumValue.t = "number" /\ enumValue.n \in 0..(Len(map) - 1)
    THEN map[enumValue.n + 1]
    ELSE fallback

\* contractMapping.js: enumToVerdict
enumToVerdict(enumValue) ==
    ElementOr(<<"true", "false", "misleading", "unproven", "partially_true">>,
              enumValue, "unproven")

\* contractMapping.js: enumToSeverity
enumToSeverity(enumValue) ==
    ElementOr(<<"low", "medium", "high", "critical">>, enumValue, "low")

\* HealthFactRegistry.verdictToString
verdictToString(_verdict) ==
    CASE _verdict = VERDICT_TRUE -> "true"
      [] _verdict = VERDICT_FALSE -> "false"
      [] _verdict = VERDICT_MISLEADING -> "misleading"
      [] _verdict = VERDICT_UNPROVEN -> "unproven"
      [] _verdict = VERDICT_PARTIALLY_TRUE -> "partially_true"
      [] OTHER -> "unknown"

\* HealthFactRegistry.severityToString
severityToString(_severity) ==
    CASE _severity = SEVERITY_LOW -> "low"
      [] _severity = SEVERITY_MEDIUM -> "medium"
      [] _severity = SEVERITY_HIGH -> "high"
      [] _severity = SEVERITY_CRITICAL -> "critical"
      [] OTHER -> "unknown"

\* the strings the mappings are tried on
VerdictInputs ==
    VerdictNames \cup {"TRUE", "False", "unknown", "", "constructor", "__proto__",
                       "toString"}

SeverityInputs ==
    SeverityNames \cup {"HIGH", "severe", "", "constructor", "valueOf"}

MapInit ==
    /\ constructor
    /\ CoordIdle
    /\ HashIdle
    /\ FormIdle
    /\ AuthIdle
    /\ verdictInput \in VerdictInputs
    /\ severityInput \in SeverityInputs
    /\ mapped = Nothing

\* the frontend maps the strings to enum values and back
ApplyContractMapping ==
    /\ mapped' = [defined |-> TRUE, by |-> "contractMapping",
                  verdict |-> contractMappingVerdictToEnum(verdictInput),
                  severity |-> contractMappingSeverityToEnum(severityInput),
                  verdictName |->
                      enumToVerdict(contractMappingVerdictToEnum(verdictInput)),
                  severityName |->
                      enumToSeverity(contractMappingSeverityToEnum(severityInput))]
    /\ UNCHANGED <<verdictInput, severityInput>>
    /\ UNCHANGED <<vars, coordVars, hashVars, formVars, authVars>>

\* the registration script maps the strings of a fact file
ApplyScriptMapping ==
    /\ mapped' = [defined |-> TRUE, by |-> "add_who_facts",
                  verdict |-> IF verdictInput \in VerdictNames
                              THEN JNumber(verdictToEnum(verdictInput))
                              ELSE JUndefined,
                  severity |-> IF severityInput \in SeverityNames
                               THEN JNumber(severityToEnum(severityInput))
                               ELSE JUndefined,
                  verdictName |-> verdictInput,
                  severityName |-> severityInput]
    /\ UNCHANGED <<verdictInput, severityInput>>
    /\ UNCHANGED <<vars, coordVars, hashVars, formVars, authVars>>

\* the registry names the enum values
ApplyRegistryStrings(_verdict, _severity) ==
    /\ mapped' = [defined |-> TRUE, by |-> "HealthFactRegistry",
                  verdict |-> JNumber(_verdict),
                  severity |-> JNumber(_severity),
                  verdictName |-> verdictToString(_verdict),
                  severityName |-> severityToString(_severity)]
    /\ UNCHANGED <<verdictInput, severityInput>>
    /\ UNCHANGED <<vars, coordVars, hashVars, formVars, authVars>>

MapNext ==
    \/ ApplyContractMapping
    \/ ApplyScriptMapping
    \/ \E _verdict \in Verdict, _severity \in Severity :
           ApplyRegistryStrings(_verdict, _severity)

MapSpec == MapInit /\ [][MapNext]_allVars

\* ====================== frontend: OrgAuthContext.jsx, ProtectedRoute.jsx
\* the largest number of calls made to login, logout and updateWalletAddress
MaxCalls == 3

\* the access tokens the backend issues, one per organization
Tokens == {"t1", "t2"}

\* the organization profile the backend returns for a token
OrgOf(t) == IF t = "t1" THEN "org1" ELSE "org2"

\* a request the backend has not answered: its endpoint and the token it
\* carries (for login-org: the token the backend will issue)
Request(kind, auth) == [kind |-> kind, auth |-> auth]

\* a sequence without its i-th element
Without(seq, i) == SubSeq(seq, 1, i - 1) \o SubSeq(seq, i + 1, Len(seq))

\* the provider is about to render: useState(localStorage.getItem('org_token'))
AuthInit ==
    /\ constructor
    /\ CoordIdle
    /\ HashIdle
    /\ FormIdle
    /\ MapIdle
    /\ org_token \in Tokens \cup {Null}
    /\ token = org_token
    /\ org = Null
    /\ loading = TRUE
    /\ Authorization = Null
    /\ requests = <<>>
    /\ mounted = FALSE
    /\ calls = 0

\* the effect on [token]: with a token, set the header and the stored item and
\* call fetchProfile (GET /api/org/me); without, clear them and setOrg(null)
useEffect(newToken, newOrg, reqs) ==
    IF newToken # Null
    THEN [Authorization |-> newToken, org_token |-> newToken, org |-> newOrg,
          requests |-> Append(reqs, Request("me", newToken))]
    ELSE [Authorization |-> Null, org_token |-> Null, org |-> Null,
          requests |-> reqs]

\* the state updates of one handler are committed together, and the effect
\* runs when the token has changed; item is the stored item and reqs the
\* requests in flight when the handler returns
setState(newToken, newOrg, newLoading, item, reqs) ==
    LET after == IF newToken # token THEN useEffect(newToken, newOrg, reqs)
                 ELSE [Authorization |-> Authorization, org_token |-> item,
                       org |-> newOrg, requests |-> reqs]
    IN  /\ token' = newToken
        /\ loading' = newLoading
        /\ org' = after.org
        /\ org_token' = after.org_token
        /\ Authorization' = after.Authorization
        /\ requests' = after.requests

\* the first render of OrgAuthProvider: the effect runs for the initial token
Mount ==
    /\ ~mounted
    /\ mounted' = TRUE
    /\ LET after == useEffect(token, org, requests) IN
          /\ org' = after.org
          /\ org_token' = after.org_token
          /\ Authorization' = after.Authorization
          /\ requests' = after.requests
    /\ UNCHANGED <<token, loading, calls>>
    /\ UNCHANGED <<vars, coordVars, hashVars, formVars, mapVars>>

\* login(email, password) posts the credentials of the organization of t
login(t) ==
    /\ mounted
    /\ calls < MaxCalls
    /\ calls' = calls + 1
    /\ requests' = Append(requests, Request("login", t))
    /\ UNCHANGED <<token, org, loading, org_token, Authorization, mounted>>
    /\ UNCHANGED <<vars, coordVars, hashVars, formVars, mapVars>>

\* login-org answers: setToken(access_token), setOrg(organization), or the
\* catch block returns the error
LoginResponse(i, ok) ==
    /\ requests[i].kind = "login"
    /\ IF ok
       THEN setState(requests[i].auth, OrgOf(requests[i].auth), loading,
                     org_token, Without(requests, i))
       ELSE /\ requests' = Without(requests, i)
            /\ UNCHANGED <<token, org, loading, org_token, Authorization>>
    /\ UNCHANGED <<mounted, calls>>
    /\ UNCHANGED <<vars, coordVars, hashVars, formVars, mapVars>>

\* mutant: logout leaves the token
logoutKeepsToken(newLoading, reqs) ==
    setState(token, Null, newLoading, Null, reqs)

\* logout(): setToken(null), setOrg(null), localStorage.removeItem
logout(newLoading, reqs) ==
    setState(Null, Null, newLoading, Null, reqs)

\* the user logs out
Logout ==
    /\ mounted
    /\ calls < MaxCalls
    /\ calls' = calls + 1
    /\ logout(loading, requests)
    /\ UNCHANGED mounted
    /\ UNCHANGED <<vars, coordVars, hashVars, formVars, mapVars>>

\* /api/org/me answers a fetchProfile: setOrg(response.data), or logout() in
\* the catch block; setLoading(false) in either case
ProfileResponse(i, ok) ==
    /\ requests[i].kind = "me"
    /\ IF ok
       THEN setState(token, OrgOf(requests[i].auth), FALSE, org_token,
                     Without(requests, i))
       ELSE logout(FALSE, Without(requests, i))
    /\ UNCHANGED <<mounted, calls>>
    /\ UNCHANGED <<vars, coordVars, hashVars, formVars, mapVars>>

\* updateWalletAddress(walletAddress) patches /api/org/me/wallet
updateWalletAddress ==
    /\ mounted
    /\ calls < MaxCalls
    /\ calls' = calls + 1
    /\ requests' = Append(requests, Request("wallet", Authorization))
    /\ UNCHANGED <<token, org, loading, org_token, Authorization, mounted>>
    /\ UNCHANGED <<vars, coordVars, hashVars, formVars, mapVars>>

\* the patch answers: setOrg(response.data), or the catch block returns the
\* error; a request without a token is refused
WalletResponse(i, ok) ==
    /\ requests[i].kind = "wallet"
    /\ ok => requests[i].auth # Null
    /\ IF ok
       THEN setState(token, OrgOf(requests[i].auth), loading, org_token,
                     Without(requests, i))
       ELSE /\ requests' = Without(requests, i)
            /\ UNCHANGED <<token, org, loading, org_token, Authorization>>
    /\ UNCHANGED <<mounted, calls>>
    /\ UNCHANGED <<vars, coordVars, hashVars, formVars, mapVars>>

\* value.isAuthenticated: !!token && !!org
isAuthenticated == token # Null /\ org # Null

\* what ProtectedRoute returns
ProtectedRoute ==
    IF loading THEN "CircularProgress"
    ELSE IF ~isAuthenticated THEN "Navigate to /org/login"
    ELSE "children"

AuthNext ==
    \/ Mount
    \/ \E t \in Tokens : login(t)
    \/ \E i \in DOMAIN requests, ok \in BOOLEAN : LoginResponse(i, ok)
    \/ Logout
    \/ \E i \in DOMAIN requests, ok \in BOOLEAN : ProfileResponse(i, ok)
    \/ updateWalletAddress
    \/ \E i \in DOMAIN requests, ok \in BOOLEAN : WalletResponse(i, ok)

AuthSpec == AuthInit /\ [][AuthNext]_allVars

\* what the form is filled with, under the fact ID handleSubmit generates and
\* with the value of hashFactJSON for it (abbreviated)
FormFacts ==
    {[fact_id |-> "who-2025-0001", on_chain_hash |-> "0xa1", verdict |-> "false",
      severity |-> "medium"],
     [fact_id |-> "who-2025-0002", on_chain_hash |-> "0xb2", verdict |-> "misleading",
      severity |-> "critical"]}

\* isConfirming: a transaction was sent and its receipt has not been fetched
isConfirming == hash # 0 /\ ~isSuccess

\* the form is open, with or without a connected wallet
PublishInit ==
    /\ constructor
    /\ CoordIdle
    /\ HashIdle
    /\ MapIdle
    /\ AuthIdle
    /\ address \in Accounts
    /\ isConnected \in BOOLEAN
    /\ prompt = Nothing
    /\ txs = <<>>
    /\ hash = 0
    /\ isSuccess = FALSE
    /\ pendingFact = Nothing
    /\ posts = <<>>
    /\ store = {}
    /\ page = [loading |-> TRUE, error |-> "", fact |-> Nothing]

\* mutant: a fact left in window.pendingFact is not replaced
handleSubmitKeepsPendingFact(f, clock) ==
    /\ isConnected
    /\ ~prompt.defined
    /\ ~isConfirming
    /\ Len(txs) < MaxSubmits
    /\ \A i \in DOMAIN txs : txs[i].args.factId # f.fact_id
    /\ prompt' = [defined |-> TRUE,
                  args |-> [factHash |-> f.on_chain_hash, factId |-> f.fact_id,
                            verdict |-> contractMappingVerdictToEnum(f.verdict).n,
                            severity |-> contractMappingSeverityToEnum(f.severity).n,
                            issuedAt |-> clock, lastReviewedAt |-> clock,
                            version |-> 1]]
    /\ hash' = 0
    /\ isSuccess' = FALSE
    /\ pendingFact' = IF pendingFact.defined THEN pendingFact
                    ELSE [defined |-> TRUE, fact_id |-> f.fact_id,
                          on_chain_hash |-> f.on_chain_hash, issued_at |-> clock]
    /\ UNCHANGED <<address, isConnected, txs, posts, store, page>>
    /\ UNCHANGED <<vars, coordVars, hashVars, mapVars, authVars>>

\* the Publish button (disabled while isPending or isConfirming): the fact is
\* hashed, writeContract asks the wallet, window.pendingFact is set; clock is
\* Date.now() in seconds
handleSubmit(f, clock) ==
    /\ isConnected
    /\ ~prompt.defined
    /\ ~isConfirming
    /\ Len(txs) < MaxSubmits
    /\ \A i \in DOMAIN txs : txs[i].args.factId # f.fact_id
    /\ prompt' = [defined |-> TRUE,
                  args |-> [factHash |-> f.on_chain_hash, factId |-> f.fact_id,
                            verdict |-> contractMappingVerdictToEnum(f.verdict).n,
                            severity |-> contractMappingSeverityToEnum(f.severity).n,
                            issuedAt |-> clock, lastReviewedAt |-> clock,
                            version |-> 1]]
    /\ hash' = 0
    /\ isSuccess' = FALSE
    /\ pendingFact' = [defined |-> TRUE, fact_id |-> f.fact_id,
                       on_chain_hash |-> f.on_chain_hash, issued_at |-> clock]
    /\ UNCHANGED <<address, isConnected, txs, posts, store, page>>
    /\ UNCHANGED <<vars, coordVars, hashVars, mapVars, authVars>>

\* writeContract fails: the user rejects the request or the wallet refuses it
WriteContractFails ==
    /\ prompt.defined
    /\ prompt' = Nothing
    /\ UNCHANGED <<address, isConnected, txs, hash, isSuccess, pendingFact, posts,
                   store, page>>
    /\ UNCHANGED <<vars, coordVars, hashVars, mapVars, authVars>>

\* writeContract succeeds: the transaction is sent and `hash` names it; a
\* wallet that simulates the call first (simulate) sends only a call that
\* would succeed now, and writeContract fails otherwise
WriteContractSends(simulate) ==
    /\ prompt.defined
    /\ simulate =>
          LET a == prompt.args IN
          addFactResult(address, a.factHash, a.factId, a.issuedAt,
                        a.lastReviewedAt, a.version) = Success
    /\ txs' = Append(txs, [args |-> prompt.args, status |-> "pending"])
    /\ hash' = Len(txs) + 1
    /\ prompt' = Nothing
    /\ UNCHANGED <<address, isConnected, isSuccess, pendingFact, posts, store, page>>
    /\ UNCHANGED <<vars, coordVars, hashVars, mapVars, authVars>>

\* a transaction of the form is mined: addFact runs with the account as sender
Mine(i) ==
    /\ txs[i].status = "pending"
    /\ LET a == txs[i].args IN
       addFact(address, a.factHash, a.factId, a.verdict, a.severity,
               a.issuedAt, a.lastReviewedAt, a.version)
    /\ txs' = [txs EXCEPT ![i].status =
                  IF result' = Success THEN "success" ELSE "reverted"]
    /\ UNCHANGED <<address, isConnected, prompt, hash, isSuccess, pendingFact,
                   posts, store, page>>
    /\ UNCHANGED <<coordVars, hashVars, mapVars, authVars>>

\* the effect on [isSuccess, hash], run when isSuccess has become true:
\* if (isSuccess && hash && window.pendingFact) axios.post(...)
submitToBackend ==
    IF hash # 0 /\ pendingFact.defined
    THEN posts' = Append(posts, [fact_id |-> pendingFact.fact_id,
                                 on_chain_hash |-> pendingFact.on_chain_hash,
                                 tx_hash |-> hash, answered |-> FALSE])
    ELSE UNCHANGED posts

\* useWaitForTransactionReceipt fetches the receipt of `hash`, whatever its
\* status: isSuccess becomes true and the effect runs
ReceiptFetched ==
    /\ isConfirming
    /\ txs[hash].status # "pending"
    /\ isSuccess' = TRUE
    /\ submitToBackend
    /\ UNCHANGED <<address, isConnected, prompt, txs, hash, pendingFact, store, page>>
    /\ UNCHANGED <<vars, coordVars, hashVars, mapVars, authVars>>

\* the backend saves the fact and answers the POST: setSubmitSuccess(true),
\* delete window.pendingFact
PostSaved(i) ==
    /\ ~posts[i].answered
    /\ posts' = [posts EXCEPT ![i].answered = TRUE]
    /\ store' = store \cup {[fact_id |-> posts[i].fact_id,
                             on_chain_hash |-> posts[i].on_chain_hash,
                             tx_hash |-> posts[i].tx_hash]}
    /\ pendingFact' = Nothing
    /\ UNCHANGED <<address, isConnected, prompt, txs, hash, isSuccess, page>>
    /\ UNCHANGED <<vars, coordVars, hashVars, mapVars, authVars>>

\* the POST fails: the catch block sets submitError, window.pendingFact stays
PostFailed(i) ==
    /\ ~posts[i].answered
    /\ posts' = [posts EXCEPT ![i].answered = TRUE]
    /\ UNCHANGED <<address, isConnected, prompt, txs, hash, isSuccess, pendingFact,
                   store, page>>
    /\ UNCHANGED <<vars, coordVars, hashVars, mapVars, authVars>>

\* PublicFactDetailPage: GET /api/public/facts/:factId, then setFact or
\* setError, then setLoading(false)
fetchFactDetail(factId) ==
    /\ page' = IF \E f \in store : f.fact_id = factId
               THEN [loading |-> FALSE, error |-> "",
                     fact |-> [defined |-> TRUE, fact_id |-> factId,
                               on_chain_hash |->
                                   (CHOOSE f \in store : f.fact_id = factId).on_chain_hash]]
               ELSE [loading |-> FALSE, error |-> "Fact not found", fact |-> Nothing]
    /\ UNCHANGED <<address, isConnected, prompt, txs, hash, isSuccess, pendingFact,
                   posts, store>>
    /\ UNCHANGED <<vars, coordVars, hashVars, mapVars, authVars>>

\* the page renders <Chip label="On-Chain Verified">: it is past the loading
\* and the error returns
OnChainVerifiedChip ==
    /\ ~page.loading
    /\ page.error = ""
    /\ page.fact.defined

\* the owner changes the status of a fact the backend has stored
OwnerUpdatesStatus ==
    /\ \E f \in store, newStatus \in Status :
          updateFactStatus(owner, f.on_chain_hash, newStatus)
    /\ UNCHANGED offChain

\* the owner hands the registry to another account while a transaction of
\* the form waits to be mined
OwnerTransfers ==
    /\ \E i \in DOMAIN txs : txs[i].status = "pending"
    /\ \E newOwner \in Accounts \ {owner} : transferOwnership(owner, newOwner)
    /\ UNCHANGED offChain

PublishNext ==
    \/ \E f \in FormFacts, clock \in 1..MaxTime : handleSubmit(f, clock)
    \/ WriteContractFails
    \/ \E simulate \in BOOLEAN : WriteContractSends(simulate)
    \/ \E i \in DOMAIN txs : Mine(i)
    \/ ReceiptFetched
    \/ \E i \in DOMAIN posts : PostSaved(i)
    \/ \E i \in DOMAIN posts : PostFailed(i)
    \/ \E factId \in FactIds \ {EmptyString} : fetchFactDetail(factId)
    \/ OwnerUpdatesStatus
    \/ OwnerTransfers
    \/ NewBlock

PublishSpec == PublishInit /\ [][PublishNext]_allVars

\* ========================================================= HealthFactRegistry
\* the registry is deployed; the script is not run, nothing is hashed, the
\* frontend is not open
Init ==
    /\ constructor
    /\ CoordIdle
    /\ HashIdle
    /\ FormIdle
    /\ MapIdle
    /\ AuthIdle

\* the registry on its own: any account calls it
Spec == Init /\ [][Next]_allVars

\* ================================================================ claims
\* the hashes under which a fact is stored
Registered == {h \in Bytes32 : factsByHash[h].factHash # ZeroHash}

\* the uint64 and uint16 argument values the claims range over
Timestamps == 0..MaxTime
Versions == 0..MaxVersion

\* the step is a transaction: the chain did not produce a block
IsTransaction == blockNumber' = blockNumber

Terminal == {SUPERSEDED, WITHDRAWN}

\* ---- C1
\* C1: once a registered hash is SUPERSEDED or WITHDRAWN, no step changes
\* its status again.
C1_TerminalStatusIsFinal ==
    [][\A h \in Registered :
          factsByHash[h].status \in Terminal
              => factsByHash'[h].status = factsByHash[h].status]_vars

\* ---- C2
\* a call of addFact, updateFactStatus or transferOwnership by an account
\* that is not the owner reverts with the owner error, whatever its arguments
C2_NotOwnerReverts ==
    \A sender \in Accounts \ {owner} :
        /\ \A h \in Bytes32, id \in FactIds, t1 \in Timestamps, t2 \in Timestamps,
              ver \in Versions :
               addFactResult(sender, h, id, t1, t2, ver) = ErrNotOwner
        /\ \A h \in Bytes32, st \in Status :
               updateFactStatusResult(sender, h, st) = ErrNotOwner
        /\ \A newOwner \in Address :
               transferOwnershipResult(sender, newOwner) = ErrNotOwner

\* C2: a call of addFact, updateFactStatus or transferOwnership by an account
\* that is not the owner reverts with the owner error whatever its arguments,
\* and the transaction that reverted so left owner, factsByHash, hashByFactId,
\* allFactHashes and totalFacts as they were.
C2_WriterOnlyMutation ==
    /\ []C2_NotOwnerReverts
    /\ [][result' = ErrNotOwner => UNCHANGED storage]_vars

\* a call of updateFactStatus by a non-owner was rejected while a fact is
\* registered
C2_Witness ==
    /\ lastOp = "updateFactStatus"
    /\ result = ErrNotOwner
    /\ Registered # {}

\* ---- C3
\* C3 as stated: addFact with a hash that is already registered reverts with
\* the already-exists error, whoever sends it and whatever the other
\* arguments.
C3_DuplicateAlwaysAlreadyExists ==
    \A sender \in Accounts, h \in Registered, id \in FactIds,
       t1 \in Timestamps, t2 \in Timestamps, ver \in Versions :
        addFactResult(sender, h, id, t1, t2, ver) = ErrAlreadyExists

\* addFact with a registered hash reverts: with the already-exists error when
\* the sender is the owner, with the owner error otherwise
C3_DuplicateReverts ==
    \A sender \in Accounts, h \in Registered, id \in FactIds,
       t1 \in Timestamps, t2 \in Timestamps, ver \in Versions :
        addFactResult(sender, h, id, t1, t2, ver) =
            IF sender = owner THEN ErrAlreadyExists ELSE ErrNotOwner

\* every registered hash was appended to allFactHashes by exactly one
\* successful addFact
C3_AddedOnce ==
    \A h \in Registered :
        Cardinality({i \in 1..Len(allFactHashes) : allFactHashes[i] = h}) = 1

\* C3 (amended): addFact with a registered hash reverts (already-exists for
\* the owner, owner error for anyone else); no addFact transaction changes an
\* entry that is already stored; each registered hash was added exactly once.
C3_FirstWriteWins ==
    /\ []C3_DuplicateReverts
    /\ []C3_AddedOnce
    /\ [][(IsTransaction /\ lastOp' = "addFact")
            => \A h \in Registered : factsByHash'[h] = factsByHash[h]]_vars

\* the owner's addFact of the one registered hash, which another account had
\* registered, was rejected as a duplicate
C3_Witness ==
    /\ lastOp = "addFact"
    /\ result = ErrAlreadyExists
    /\ Cardinality(Registered) = 1
    /\ \A h \in Registered : factsByHash[h].addedBy # owner

\* ---- C4
\* C4: for every fact ID at most one registered entry with that ID is ACTIVE.
C4_OneActivePerFactId ==
    \A id \in FactIds :
        Cardinality({h \in Registered : /\ factsByHash[h].factId = id
                                        /\ factsByHash[h].status = ACTIVE}) <= 1

\* an addFact of a new hash under the fact ID of an ACTIVE entry was rejected
C4_Witness ==
    /\ lastOp = "addFact"
    /\ result = ErrIdExists
    /\ \E h \in Registered : factsByHash[h].status = ACTIVE

\* ---- C5
\* the arguments of an addFact call by the owner that passes every check
\* other than those on the hash and the fact ID
ValidTimes ==
    {t \in Timestamps \X Timestamps :
        /\ notFutureIssuedAt(t[1])
        /\ reviewedNotBeforeIssued(t[1], t[2])}

\* C5 as stated: once the hash registered under a fact ID is SUPERSEDED or
\* WITHDRAWN, the owner's addFact of a new hash under that fact ID, with
\* valid arguments, is accepted.
C5_TerminalIdReusable ==
    \A h \in Registered, h2 \in Bytes32 \ (Registered \cup {ZeroHash}),
       t \in ValidTimes, ver \in Versions \ {0} :
        factsByHash[h].status \in Terminal
            => addFactResult(owner, h2, factsByHash[h].factId, t[1], t[2], ver)
                   = Success

\* C5 (amended): a fact ID stays blocked whatever the status of its hash: the
\* owner's addFact of a new hash under the fact ID of a registered entry,
\* with valid arguments, reverts with the ID-exists error, also when that
\* entry is SUPERSEDED or WITHDRAWN, and hashByFactId of the ID is still the
\* entry's hash.
C5_FactIdNeverReusable ==
    \A h \in Registered :
        /\ hashByFactId[factsByHash[h].factId] = h
        /\ \A h2 \in Bytes32 \ (Registered \cup {ZeroHash}),
              t \in ValidTimes, ver \in Versions \ {0} :
               addFactResult(owner, h2, factsByHash[h].factId, t[1], t[2], ver)
                   = ErrIdExists

\* an addFact was rejected for its fact ID while no registered entry is
\* ACTIVE
C5_Witness ==
    /\ result = ErrIdExists
    /\ Registered # {}
    /\ \A h \in Registered : factsByHash[h].status \in Terminal

\* ---- C6
\* an addFact call with a future issuedAt, a lastReviewedAt before issuedAt
\* or version 0 reverts, whoever sends it
C6_InvalidInputReverts ==
    \A sender \in Accounts, h \in Bytes32, id \in FactIds,
       t1 \in Timestamps, t2 \in Timestamps, ver \in Versions :
        (t1 > blockTimestamp \/ t2 < t1 \/ ver < 1)
            => addFactResult(sender, h, id, t1, t2, ver) # Success

\* every stored entry has version >= 1 and lastReviewedAt >= issuedAt
C6_StoredEntriesValid ==
    \A h \in Registered :
        /\ factsByHash[h].version >= 1
        /\ factsByHash[h].lastReviewedAt >= factsByHash[h].issuedAt

\* C6: addFact with issuedAt in the future, lastReviewedAt < issuedAt or
\* version < 1 reverts; a transaction that reverts leaves the storage as it
\* was; every stored entry has version >= 1 and lastReviewedAt >= issuedAt,
\* and its issuedAt is at most the block timestamp of the transaction that
\* stored it.
C6_InputValidation ==
    /\ []C6_InvalidInputReverts
    /\ []C6_StoredEntriesValid
    /\ [][(result' # Success => UNCHANGED storage)
          /\ \A h \in Bytes32 \ Registered :
                (IsTransaction /\ factsByHash'[h].factHash # ZeroHash)
                    => factsByHash'[h].issuedAt <= blockTimestamp]_vars

\* an addFact was rejected for its version, its issuedAt or its
\* lastReviewedAt while a fact is registered
C6_Witness ==
    /\ result \in {ErrVersion, ErrFutureIssuedAt, ErrReviewedBeforeIssued}
    /\ Registered # {}

\* ---- C7
\* C7: right after a successful addFact, getFactByHash of the submitted hash
\* returns the submitted fact ID, verdict, severity, issuedAt, lastReviewedAt
\* and version with status ACTIVE and addedBy the sender; checkFactExists
\* returns (true, ACTIVE); getFactById of the submitted ID returns the same
\* entry.
C7_AddFactEffect ==
    [][(IsTransaction /\ lastOp' = "addFact" /\ result' = Success)
        => \A sender \in Accounts, h \in Bytes32, id \in FactIds, p \in Payloads :
              addFact(sender, h, id, p.verdict, p.severity, p.issuedAt,
                      p.lastReviewedAt, p.version)
              => /\ getFactByHash(h)' =
                       [factHash |-> h, factId |-> id, verdict |-> p.verdict,
                        severity |-> p.severity, issuedAt |-> p.issuedAt,
                        lastReviewedAt |-> p.lastReviewedAt,
                        version |-> p.version, status |-> ACTIVE,
                        addedBy |-> sender, addedAtBlock |-> blockNumber]
                 /\ checkFactExists(h)' = [exists |-> TRUE, status |-> ACTIVE]
                 /\ getFactById(id)' = getFactByHash(h)']_vars

\* an addFact by the account the ownership was transferred to succeeded, and
\* the entry it stored is returned by both lookups
C7_Witness ==
    /\ lastOp = "addFact"
    /\ result = Success
    /\ owner # Deployer
    /\ getFactByHash(logs[1].factHash).addedBy = owner
    /\ getFactById(logs[1].factId) = getFactByHash(logs[1].factHash)

\* ---- C8
\* C8: for every registered hash, no step changes factHash, factId, verdict,
\* severity, issuedAt, lastReviewedAt, version, addedBy or addedAtBlock of
\* the entry getFactByHash returns; only status may differ.
C8_EntryImmutable ==
    [][\A h \in Registered :
          [getFactByHash(h)' EXCEPT !.status = factsByHash[h].status]
              = getFactByHash(h)]_vars

\* an updateFactStatus succeeded on an entry that the account the ownership
\* was later taken from had registered in an earlier block
C8_Witness ==
    /\ lastOp = "updateFactStatus"
    /\ result = Success
    /\ \E h \in Registered :
           /\ factsByHash[h].status # ACTIVE
           /\ factsByHash[h].addedBy # owner
           /\ factsByHash[h].addedAtBlock < blockNumber

\* ---- C9
\* C9: once a hash is registered, checkFactExists reports it and
\* getFactByHash returns it after every step, and allFactHashes only grows
\* at its end.
C9_Permanence ==
    [][/\ \A h \in Registered :
             /\ checkFactExists(h)'.exists
             /\ getFactByHash(h)' # Reverted(ErrNotExists)
       /\ Len(allFactHashes') >= Len(allFactHashes)
       /\ SubSeq(allFactHashes', 1, Len(allFactHashes)) = allFactHashes]_vars

\* both hashes are registered, one of them WITHDRAWN and one SUPERSEDED, and
\* both are still listed
C9_Witness ==
    /\ Cardinality(Registered) = 2
    /\ \E h \in Registered : factsByHash[h].status = WITHDRAWN
    /\ \E h \in Registered : factsByHash[h].status = SUPERSEDED
    /\ Len(getAllFactHashes) = 2

\* ---- C10
\* the owner's updateFactStatus of a hash that is not registered reverts with
\* the not-exists error, and with the current status of a registered hash it
\* reverts with the status-unchanged error
C10_UpdateErrors ==
    /\ \A h \in Bytes32 \ Registered, st \in Status :
           updateFactStatusResult(owner, h, st) = ErrNotExists
    /\ \A h \in Registered :
           updateFactStatusResult(owner, h, factsByHash[h].status) = ErrUnchanged

\* C10: updateFactStatus by the owner reverts with the not-exists error for
\* an unregistered hash and with the status-unchanged error when the new
\* status is the current one; the transaction that reverted so changed no
\* entry and emitted no event.
C10_UpdateStatusErrors ==
    /\ []C10_UpdateErrors
    /\ [][result' \in {ErrNotExists, ErrUnchanged}
            => (UNCHANGED storage /\ logs' = <<>>)]_vars

\* the owner's updateFactStatus of a WITHDRAWN fact to WITHDRAWN was rejected
\* while the other hash is not registered
C10_Witness ==
    /\ lastOp = "updateFactStatus"
    /\ result = ErrUnchanged
    /\ Cardinality(Registered) = 1
    /\ \A h \in Registered : factsByHash[h].status = WITHDRAWN

\* ---- C11
\* the owner is an account, not the zero address; the owner's
\* transferOwnership to the zero address or to itself reverts
C11_TransferChecks ==
    /\ owner \in Accounts
    /\ owner # ZeroAddress
    /\ transferOwnershipResult(owner, ZeroAddress) = ErrZeroOwner
    /\ transferOwnershipResult(owner, owner) = ErrSameOwner

\* C11: transferOwnership by the owner reverts for the zero address and for
\* the owner itself; when it succeeds the owner is the new owner, every call
\* of the previous owner then reverts with the owner error and no call of
\* the new owner does; the owner is never the zero address.
C11_TransferWriter ==
    /\ []C11_TransferChecks
    /\ [][(IsTransaction /\ lastOp' = "transferOwnership" /\ result' = Success)
          => \A prev \in Accounts, newOwner \in Address :
                transferOwnership(prev, newOwner)
                => /\ prev = owner
                   /\ owner' = newOwner
                   /\ newOwner \notin {prev, ZeroAddress}
                   /\ \A h \in Bytes32, id \in FactIds, p \in Payloads :
                         /\ addFactResult(prev, h, id, p.issuedAt,
                                          p.lastReviewedAt, p.version)' = ErrNotOwner
                         /\ addFactResult(newOwner, h, id, p.issuedAt,
                                          p.lastReviewedAt, p.version)' # ErrNotOwner
                   /\ \A h \in Bytes32, st \in Status :
                         /\ updateFactStatusResult(prev, h, st)' = ErrNotOwner
                         /\ updateFactStatusResult(newOwner, h, st)' # ErrNotOwner
                   /\ \A a \in Address :
                         /\ transferOwnershipResult(prev, a)' = ErrNotOwner
                         /\ transferOwnershipResult(newOwner, a)' # ErrNotOwner]_vars

\* the ownership was transferred away from the deployer, and then a call of
\* the deployer was rejected
C11_Witness ==
    /\ owner # Deployer
    /\ result = ErrNotOwner
    /\ lastOp = "addFact"

\* ---- C12
\* C12: checkFactExists returns exists = true exactly for the hashes a
\* successful addFact appended to allFactHashes, with the status of the
\* entry getFactByHash returns; for every other hash it returns
\* (false, ACTIVE).
C12_ExistsExactlyRegistered ==
    \A h \in Bytes32 :
        LET r == checkFactExists(h) IN
        /\ r.exists <=> (\E i \in 1..Len(allFactHashes) : allFactHashes[i] = h)
        /\ r.exists => r.status = getFactByHash(h).status
        /\ ~r.exists => r = [exists |-> FALSE, status |-> ACTIVE]

\* one hash is registered and SUPERSEDED, another hash is not registered, and
\* an updateFactStatus of a hash that is not registered was rejected
C12_Witness ==
    /\ result = ErrNotExists
    /\ \E h \in Bytes32 : checkFactExists(h) = [exists |-> TRUE, status |-> SUPERSEDED]
    /\ \E h \in Bytes32 \ {ZeroHash} : ~checkFactExists(h).exists

\* ---- C13
\* C13: getFactById reverts with the not-found error for a fact ID under
\* which no entry is registered, and for the fact ID of a registered entry
\* it returns that entry with its current status, whatever that status is.
C13_LookupById ==
    /\ \A id \in FactIds :
           (\A h \in Registered : factsByHash[h].factId # id)
               => getFactById(id) = Reverted("HealthFactRegistry: fact ID not found")
    /\ \A h \in Registered : getFactById(factsByHash[h].factId) = factsByHash[h]

\* the entry of one fact ID is WITHDRAWN and returned by getFactById, and no
\* entry is registered under the other fact ID
C13_Witness ==
    /\ \E h \in Registered :
           /\ factsByHash[h].status = WITHDRAWN
           /\ getFactById(factsByHash[h].factId).status = WITHDRAWN
    /\ \E id \in FactIds \ {EmptyString} :
           getFactById(id) = Reverted("HealthFactRegistry: fact ID not found")


\* ------------------------------------------------------------------ C14
\* the records a run has counted so far
Processed(r) == successCount[r] + skipCount[r] + failCount[r]

\* the second run sent no transaction, registered nothing, failed on nothing,
\* and a report it makes has every record of the batch under skipped
SecondRunSkipsAll ==
    /\ pc["run2"] # "wait"
    /\ ~pending["run2"].sent
    /\ successCount["run2"] = 0
    /\ failCount["run2"] = 0
    /\ pc["run2"] = "done" => skipCount["run2"] = Len(batch)

\* C14 as stated: whenever the script is run a second time over the same
\* batch after the first run has ended, the second run submits no addFact
\* transaction, creates no entry, and reports every record as skipped.
C14_SecondRunSkipsAll == SecondRunSkipsAll

\* C14 (amended): when the first run reached its report without a failed
\* record (every record registered or skipped), a second run over the same
\* batch submits no addFact transaction, creates no entry (totalFacts stays
\* the first run's count), and a report it makes has every record of the
\* batch under skipped.
C14_RerunAfterCleanRunSkipsAll ==
    (pc["run1"] = "done" /\ failCount["run1"] = 0) =>
        /\ SecondRunSkipsAll
        /\ totalFacts = successCount["run1"]

C14_Witness ==
    /\ pc["run1"] = "done" /\ failCount["run1"] = 0 /\ successCount["run1"] = Len(batch)
    /\ pc["run2"] = "done" /\ skipCount["run2"] = Len(batch)

\* ------------------------------------------------------------------ C15
\* C15 as stated: a failure of a single record never ends the run: a run is
\* only ever aborted before the batch (the owner check), never inside it.
C15_RecordFailureNeverAborts ==
    \A r \in Runs : pc[r] = "aborted" => idx[r] = 0

\* ------------------------------------------------------------------ C16
\* every record gone through is counted once; the entries of the registry are
\* the records the runs counted as registered
C16_Accounted ==
    /\ \A r \in Runs :
          /\ idx[r] > 0 => Processed(r) = idx[r] - 1
          /\ pc[r] = "done" => Processed(r) = Len(batch)
    /\ totalFacts = successCount["run1"] + successCount["run2"]
    /\ Cardinality(Registered) = totalFacts

\* a step counts a record as skipped exactly when it is the probe of a record
\* whose hash is registered, and as registered exactly when it creates an entry
C16_CountedAsObserved ==
    \A r \in Runs :
        /\ skipCount'[r] = skipCount[r] +
              (IF /\ pc[r] = "probe" /\ pc'[r] # "probe"
                  /\ batch[idx[r]].sha256 \in Registered
               THEN 1 ELSE 0)
        /\ successCount'[r] = successCount[r] +
              (IF pc[r] = "wait" /\ pc'[r] # "wait"
               THEN totalFacts' - totalFacts ELSE 0)

\* C16: when a run finishes every record of the batch is counted in exactly
\* one of registered, skipped or failed; the registered count is the number
\* of entries the run created; the skipped count is the number of records
\* whose hash was registered when probed.
C16_ReportAccuracy == []C16_Accounted /\ [][C16_CountedAsObserved]_allVars

C16_Witness ==
    \E r \in Runs :
        /\ pc[r] = "done"
        /\ successCount[r] = 1 /\ failCount[r] = 1
        /\ \E other \in Runs \ {r} : pc[other] = "done" /\ skipCount[other] = 1

\* ------------------------------------------------------------------ C17
\* C17 as stated: when the transaction a run waits for is rejected because
\* another run registered the hash after the probe, the run does not count
\* the record as a failure (it counts it as skipped or registered).
C17_AlreadyExistsIsNotFailure ==
    [][\A r \in Runs :
          (pc[r] = "wait" /\ pc'[r] # "wait" /\ result' = ErrAlreadyExists) =>
              /\ failCount'[r] = failCount[r]
              /\ skipCount'[r] + successCount'[r] =
                     skipCount[r] + successCount[r] + 1]_allVars



\* ------------------------------------------------------------------ C18
\* the second record is the first with another status
DiffersOnlyInStatus ==
    /\ fact2 # fact1
    /\ \E st \in StatusNames : fact2 = Put(fact1, "status", JString(st))

\* C18 as stated: two records that differ only in their status field get the
\* same hash from computeFactHash and from hashFactJSON.
C18_StatusNotHashed ==
    (applied \in {"computeFactHash", "hashFactJSON"} /\ DiffersOnlyInStatus) =>
        hash1 = hash2

\* ------------------------------------------------------------------ C19
RECURSIVE SameUpToKeyOrder(_, _)
\* the same value but for the insertion order of the keys of objects
SameUpToKeyOrder(x, y) ==
    IF x.t # y.t THEN FALSE
    ELSE IF x.t = "array"
    THEN /\ Len(x.a) = Len(y.a)
         /\ \A i \in DOMAIN x.a : SameUpToKeyOrder(x.a[i], y.a[i])
    ELSE IF x.t = "object"
    THEN /\ {x.o[i].k : i \in DOMAIN x.o} = {y.o[i].k : i \in DOMAIN y.o}
         /\ Len(x.o) = Len(y.o)
         /\ \A i \in DOMAIN x.o : SameUpToKeyOrder(x.o[i].v, Get(y, x.o[i].k))
    ELSE x = y

\* C19: two values that differ only in the insertion order of object keys, at
\* any depth, get the identical string from canonicalizeJSON and the
\* identical hash from hashFactJSON.
C19_KeyOrderDeterminism ==
    (applied \in {"canonicalizeJSON", "hashFactJSON"} /\ SameUpToKeyOrder(fact1, fact2)) =>
        /\ canon1 = canon2
        /\ hash1 = hash2

\* canonicalizeJSON was applied to records whose keys are in another order
\* both in the record and inside an evidence entry
C19_Witness ==
    /\ applied = "canonicalizeJSON"
    /\ SameUpToKeyOrder(fact1, fact2)
    /\ Keys(fact1) # Keys(fact2)
    /\ Get(fact1, "evidence") # Get(fact2, "evidence")
    /\ canon1 = canon2

\* ------------------------------------------------------------------ C20
\* the records differ in a substantive field
DiffersInSubstantiveField ==
    \E k \in SubstantiveKeys(shape) : ~SameUpToKeyOrder(Get(fact1, k), Get(fact2, k))

\* C20 as stated: two records that differ in a substantive field (id, claim
\* text, verdict, severity, summary, evidence, issued_at, last_reviewed_at,
\* version) have different canonical serializations, for computeFactHash and
\* for hashFactJSON.
C20_SubstantiveFieldsHashed ==
    (applied \in {"computeFactHash", "hashFactJSON"} /\ DiffersInSubstantiveField) =>
        canon1 # canon2



\* ------------------------------------------------------------------ C27
\* the events of the step's transaction that carry the given name
EventsNamed(name) == {i \in DOMAIN logs' : logs'[i].event = name}

C27_EventsMatchStep ==
    IsTransaction =>
        /\ result' # Success => logs' = <<>>
        /\ (lastOp' = "addFact" /\ result' = Success) =>
              /\ Len(logs') = 1
              /\ Len(allFactHashes') = Len(allFactHashes) + 1
              /\ LET h == allFactHashes'[Len(allFactHashes')] IN
                 logs'[1] = [event |-> "FactAdded", factHash |-> h,
                             factId |-> factsByHash'[h].factId,
                             verdict |-> factsByHash'[h].verdict,
                             severity |-> factsByHash'[h].severity,
                             addedBy |-> owner,
                             issuedAt |-> factsByHash'[h].issuedAt]
        /\ (lastOp' = "updateFactStatus" /\ result' = Success) =>
              /\ Len(logs') = 1
              /\ logs'[1].event = "FactUpdated"
              /\ LET h == logs'[1].factHash IN
                 /\ h \in Registered
                 /\ logs'[1].oldStatus = factsByHash[h].status
                 /\ logs'[1].newStatus = factsByHash'[h].status
                 /\ logs'[1].oldStatus # logs'[1].newStatus
                 /\ \A g \in Bytes32 \ {h} : factsByHash'[g] = factsByHash[g]
        /\ Cardinality(EventsNamed("FactAdded")) =
              Cardinality({h \in Bytes32 : factsByHash'[h].factHash # ZeroHash})
                  - Cardinality(Registered)

\* C27: a successful addFact emits exactly one FactAdded with the hash, fact
\* ID, verdict, severity, caller and issuedAt of the new entry; a successful
\* updateFactStatus emits exactly one FactUpdated with the status before and
\* after; a failed call emits nothing; every step emits as many FactAdded
\* events as it adds entries, so the two counts are always equal.
C27_NotificationsMatchChanges == [][C27_EventsMatchStep]_vars

C27_Witness ==
    /\ lastOp = "updateFactStatus"
    /\ result = Success
    /\ logs[1].oldStatus = SUPERSEDED
    /\ logs[1].newStatus = WITHDRAWN
    /\ totalFacts = 2

\* ------------------------------------------------------------------ C28
C28_CounterMatchesList ==
    /\ totalFacts = Len(allFactHashes)
    /\ totalFacts = Cardinality(Registered)
    /\ {allFactHashes[i] : i \in DOMAIN allFactHashes} = Registered
    /\ \A i, j \in DOMAIN allFactHashes :
          allFactHashes[i] = allFactHashes[j] => i = j

C28_CounterStep ==
    IF IsTransaction /\ lastOp' = "addFact" /\ result' = Success
    THEN /\ totalFacts' = totalFacts + 1
         /\ Len(allFactHashes') = Len(allFactHashes) + 1
         /\ SubSeq(allFactHashes', 1, Len(allFactHashes)) = allFactHashes
         /\ allFactHashes'[Len(allFactHashes')] \notin Registered
    ELSE /\ totalFacts' = totalFacts
         /\ allFactHashes' = allFactHashes

\* C28: totalFacts is the length of allFactHashes and the number of stored
\* entries; allFactHashes has no duplicate and is in registration order (a
\* step only appends the newly registered hash); totalFacts grows by exactly
\* 1 on a successful addFact and is unchanged by every other step.
C28_CounterAndEnumeration == []C28_CounterMatchesList /\ [][C28_CounterStep]_vars

C28_Witness ==
    /\ totalFacts = 2
    /\ allFactHashes = <<"0xb2", "0xa1">>
    /\ lastOp = "addFact"
    /\ result = ErrAlreadyExists

\* ------------------------------------------------------------------ C29
C29_IndexConsistent ==
    /\ \A id \in FactIds, h \in Bytes32 \ {ZeroHash} :
          hashByFactId[id] = h <=> (h \in Registered /\ factsByHash[h].factId = id)
    /\ \A g, h \in Registered : factsByHash[g].factId = factsByHash[h].factId => g = h

C29_MappingStep ==
    \A id \in FactIds : hashByFactId[id] # ZeroHash => hashByFactId'[id] = hashByFactId[id]

\* C29: hashByFactId[id] = h with h non-zero holds exactly when an entry is
\* stored under h with fact ID id; no two stored entries share a fact ID; a
\* fact ID once mapped to a hash stays mapped to it, whatever the status.
C29_UniqueFactIds == []C29_IndexConsistent /\ [][C29_MappingStep]_vars

C29_Witness ==
    /\ lastOp = "addFact"
    /\ result = ErrIdExists
    /\ \E h \in Registered :
          /\ factsByHash[h].status = WITHDRAWN
          /\ hashByFactId[factsByHash[h].factId] = h



\* ------------------------------------------------------------------ C25
\* a run has a transaction outstanding only while it awaits tx.wait() for the
\* record it is at, and every record before that one has ended
C25_OneOutstanding ==
    \A r \in Runs :
        /\ pending[r].sent <=> pc[r] = "wait"
        /\ pending[r].sent =>
              /\ pending[r].args = addFactArgs(batch[idx[r]])
              /\ Processed(r) = idx[r] - 1

\* a transaction is submitted only when none of the run is outstanding, and
\* the run goes to the next record only when none is outstanding afterwards
C25_SubmitAfterPreviousEnded ==
    \A r \in Runs :
        /\ (pending'[r].sent /\ pending'[r] # pending[r]) =>
              /\ ~pending[r].sent
              /\ Processed(r) = idx[r] - 1
              /\ idx'[r] = idx[r]
        /\ idx'[r] # idx[r] => ~pending'[r].sent

\* C25: within one run the addFact transaction of a record is submitted only
\* after the previous record's processing has ended (confirmed, failed or
\* skipped); at most one transaction of the run is outstanding at any time.
C25_SerializedRegistration ==
    []C25_OneOutstanding /\ [][C25_SubmitAfterPreviousEnded]_allVars

C25_Witness ==
    \E r \in Runs :
        /\ pc[r] = "wait"
        /\ idx[r] = 2
        /\ successCount[r] = 1

\* ------------------------------------------------------------------ C30
\* a run whose signer is not the owner has processed no record and has no
\* transaction outstanding
C30_NotOwnerProcessesNothing ==
    \A r \in Runs :
        signer[r] # owner =>
            /\ pc[r] \in {"idle", "checkOwner", "aborted"}
            /\ idx[r] = 0
            /\ ~pending[r].sent
            /\ Processed(r) = 0

\* a step of a run whose signer is not the owner leaves the registry as it is
C30_NotOwnerStep ==
    \A r \in Runs :
        (signer[r] # owner /\ pc'[r] # pc[r]) =>
            /\ UNCHANGED storage
            /\ pc'[r] \in {"checkOwner", "aborted"}

\* C30: when the signer running the script is not the registry's owner, the
\* run aborts before it processes any record and submits no addFact
\* transaction; the registry is unchanged by the run.
C30_OwnerPreCheck == []C30_NotOwnerProcessesNothing /\ [][C30_NotOwnerStep]_allVars

C30_Witness ==
    \E r \in Runs :
        /\ signer[r] # owner
        /\ pc[r] = "aborted"
        /\ \E other \in Runs : pc[other] = "done" /\ successCount[other] = Len(batch)



\* ------------------------------------------------------------------ C21
\* C21 as stated: for the same logical record the canonical serialization and
\* the hash of the frontend path (hashFactJSON) equal those of the script
\* path (computeFactHash).
C21_PathsAgree ==
    applied = "bothPaths" => (canon1 = canon2 /\ hash1 = hash2)

\* ------------------------------------------------------------------ C22
\* a required field of the record is absent or its version is not finite
Malformed(record) ==
    \/ \E k \in SubstantiveKeys(shape) : Get(record, k).t = "undefined"
    \/ Get(record, "version").t = "NaN"

\* C22 as stated: canonicalizing a record in which a required field is absent
\* or a numeric field is not finite fails and yields no hash.
C22_MalformedYieldsNoHash ==
    (applied \in {"hashFactJSON", "computeFactHash"} /\ Malformed(fact2)) =>
        hash2 = ""



\* ------------------------------------------------------------------ C23
C23_VerifiedIffActive ==
    \A h \in Bytes32 :
        /\ verify(h).on_chain_verified <=>
              (h \in Registered /\ factsByHash[h].status = ACTIVE)
        /\ IF verify(h).on_chain_verified
           THEN /\ verify(h).outcome = "Verified"
                /\ verify(h).verification_method = "WHO Blockchain Registry"
                /\ verify(h).who_fact_id = factsByHash[h].factId
           ELSE /\ verify(h).outcome = "NoAuthoritativeMatch"
                /\ verify(h).verification_method = "AI"

C23_AfterWithdrawal ==
    \A h \in Bytes32 :
        (/\ IsTransaction /\ lastOp' = "updateFactStatus" /\ result' = Success
         /\ factsByHash'[h].status # factsByHash[h].status
         /\ factsByHash'[h].status \in Terminal) =>
            verify(h)'.outcome = "NoAuthoritativeMatch"

\* C23: verify returns Verified (on_chain_verified, method 'WHO Blockchain
\* Registry') only if an entry for the hash exists with status ACTIVE, and
\* NoAuthoritativeMatch (AI fallback) when the hash is unknown and when its
\* entry is WITHDRAWN or SUPERSEDED; right after an update of an entry to
\* WITHDRAWN or SUPERSEDED verify of that hash returns NoAuthoritativeMatch.
C23_VerificationPrecedence == []C23_VerifiedIffActive /\ [][C23_AfterWithdrawal]_vars

C23_Witness ==
    /\ lastOp = "updateFactStatus"
    /\ result = Success
    /\ \E h \in Registered :
          /\ factsByHash[h].status = WITHDRAWN
          /\ verify(h).outcome = "NoAuthoritativeMatch"
    /\ \E g \in Registered : verify(g).outcome = "Verified"

C26_ChipOnlyWhileActive ==
    [][(/\ page' # page
        /\ OnChainVerifiedChip'
        /\ factExists(page'.fact.on_chain_hash))
       => factsByHash[page'.fact.on_chain_hash].status = ACTIVE]_allVars

\* the round trips of the frontend mapping on the nine names
C31_RoundTrip ==
    (mapped.defined /\ mapped.by = "contractMapping") =>
        /\ verdictInput \in VerdictNames => mapped.verdictName = verdictInput
        /\ severityInput \in SeverityNames => mapped.severityName = severityInput

\* the frontend, the script and the registry give a name the same number
C31_Agreement ==
    /\ (mapped.defined /\ mapped.by = "add_who_facts") =>
          /\ verdictInput \in VerdictNames =>
                mapped.verdict = contractMappingVerdictToEnum(verdictInput)
          /\ severityInput \in SeverityNames =>
                mapped.severity = contractMappingSeverityToEnum(severityInput)
    /\ (mapped.defined /\ mapped.by = "HealthFactRegistry") =>
          /\ contractMappingVerdictToEnum(mapped.verdictName) = mapped.verdict
          /\ contractMappingSeverityToEnum(mapped.severityName) = mapped.severity
          /\ JNumber(verdictToEnum(mapped.verdictName)) = mapped.verdict
          /\ JNumber(severityToEnum(mapped.severityName)) = mapped.severity

\* the frontend mapping returns a verdict in 0..4 and a severity in 0..3 for
\* every string, UNPROVEN and LOW for the strings that are no names
C31_InRange ==
    (mapped.defined /\ mapped.by = "contractMapping") =>
        /\ mapped.verdict.t = "number" /\ mapped.verdict.n \in Verdict
        /\ mapped.severity.t = "number" /\ mapped.severity.n \in Severity
        /\ toLowerCase(verdictInput) \notin VerdictNames =>
              mapped.verdict = JNumber(VERDICT_UNPROVEN)
        /\ toLowerCase(severityInput) \notin SeverityNames =>
              mapped.severity = JNumber(SEVERITY_LOW)

\* C31: enum mapping round trip and agreement: enumToVerdict(verdictToEnum(v))
\* = v and enumToSeverity(severityToEnum(s)) = s on the names; the frontend,
\* the script and the registry agree on the number of each name; and the
\* frontend mapping never returns a value outside 0..4 / 0..3
C31_EnumMappings == C31_RoundTrip /\ C31_Agreement /\ C31_InRange

\* C32: publish pairing: every record POSTed to the application store carries
\* the tx_hash of a transaction the form has sent and the on_chain_hash and
\* fact_id that this transaction registers
C32_PublishPairing ==
    \A i \in DOMAIN posts :
        /\ posts[i].tx_hash \in DOMAIN txs
        /\ txs[posts[i].tx_hash].args.factHash = posts[i].on_chain_hash
        /\ txs[posts[i].tx_hash].args.factId = posts[i].fact_id

\* a second fact is POSTed after the save of the first one has failed
C32_Witness ==
    /\ Len(posts) = 2
    /\ posts[1].answered
    /\ \A f \in store : f.tx_hash # posts[1].tx_hash
    /\ posts[2].tx_hash = 2
    /\ posts[2].on_chain_hash # posts[1].on_chain_hash

\* the dashboard is rendered only when loading is over and a token and a
\* profile are set; without a token the stored item is gone
C33_DashboardNeedsSession ==
    /\ ProtectedRoute = "children" =>
          ~loading /\ token # Null /\ org # Null
    /\ (mounted /\ token = Null) =>
          org_token = Null /\ ProtectedRoute # "children"

\* a call of logout: the only call that sends no request
C33_LogoutStep ==
    (calls' = calls + 1 /\ requests' = requests) =>
        /\ token' = Null
        /\ org' = Null
        /\ org_token' = Null
        /\ ProtectedRoute' # "children"

\* a token appears only with the answer to a login
C33_TokenFromLogin ==
    (mounted /\ token' # token /\ token' # Null) =>
        \E i \in DOMAIN requests :
            /\ requests[i].kind = "login"
            /\ token' = requests[i].auth
            /\ org' = OrgOf(token')

\* C33: ProtectedRoute safety: the dashboard is rendered only when the auth
\* context is not loading and both token and org are set; logout() leaves
\* token and org null and the stored org_token removed, and the dashboard is
\* not rendered again before a later successful login
C33_ProtectedRouteSafety ==
    /\ []C33_DashboardNeedsSession
    /\ [][C33_LogoutStep]_allVars
    /\ [][C33_TokenFromLogin]_allVars

\* after a logout a profile answer of the session before has arrived: org is
\* set again, and the route still redirects
C33_Witness ==
    /\ mounted
    /\ calls > 0
    /\ token = Null
    /\ org # Null
    /\ ~loading
    /\ ProtectedRoute = "Navigate to /org/login"

\* C34: ProtectedRoute liveness: the loading flag becomes false; in
\* particular it is false once the provider has run its effect and no request
\* is in flight, so that the visitor is not left on the spinner
C34_LoadingEnds ==
    (mounted /\ requests = <<>>) => ~loading

\* C35: no stale profile overwrite: the answer to a profile request made for
\* a token that is no longer the current token changes neither org nor token
C35_NoStaleProfile ==
    [][\A i \in DOMAIN requests :
          (/\ requests[i].kind = "me"
           /\ requests[i].auth # token
           /\ requests' = Without(requests, i)
           /\ calls' = calls)
          => (org' = org /\ token' = token)]_allVars

====
